---------------------------- MODULE Spec2Model ----------------------------
(***************************************************************************)
(* Domain viability screening engine: the poller (poller.js), the upload   *)
(* path (processCSV), the dispatcher's settle-all classification, the      *)
(* prober (checkWebsite), the synchronous store upload (uploadToMongoDB)   *)
(* and the deferred bad-document writer (badDocsService.js).               *)
(*                                                                         *)
(* Text that the code transforms or searches (domains, list numbers, URLs, *)
(* languages, page bodies) is a sequence of one-character strings, so that *)
(* toLowerCase, trim, includes and the regular expressions are computed.   *)
(* Fixed literals that are only compared (status "error", message          *)
(* templates) are TLA+ strings.                                            *)
(***************************************************************************)
EXTENDS Integers, Sequences, FiniteSets, TLC

(***************************************************************************)
(* Bounds of the model.                                                    *)
(***************************************************************************)
\* poller triggers (cron firings) explored
MaxTriggers == 2
\* entries ever inserted into to_be_scanned
MaxDocs == 2
\* os.cpus().length of the modelled host: slice size of one poller run
BatchSize == 2
\* rows of the uploaded CSV
MaxRows == 1
\* addResultsQueue calls explored
MaxCalls == 2
\* processQueue calls whose bulkWrite may be outstanding at once
MaxFlushes == 3
\* records ever pushed on the queue of the writer, and the largest
\* threshold passed to initBadDocsService
MaxBad == 2

(***************************************************************************)
(* Text helpers: String.prototype.toLowerCase, trim, includes.             *)
(***************************************************************************)
UpperChars == <<"A","B","C","D","E","F","G","H","I","J","K","L","M",
                "N","O","P","Q","R","S","T","U","V","W","X","Y","Z">>

LowerChars == <<"a","b","c","d","e","f","g","h","i","j","k","l","m",
                "n","o","p","q","r","s","t","u","v","w","x","y","z">>

Digits == {"0","1","2","3","4","5","6","7","8","9"}

ToLowerChar(c) ==
    IF \E i \in 1..26 : UpperChars[i] = c
    THEN LowerChars[CHOOSE i \in 1..26 : UpperChars[i] = c]
    ELSE c

toLowerCase(s) == [i \in 1..Len(s) |-> ToLowerChar(s[i])]

includes(s, term) ==
    \E i \in 1..(Len(s) - Len(term) + 1) : SubSeq(s, i, i + Len(term) - 1) = term

IsSpace(c) == c \in {" ", "\t", "\n", "\r"}

trim(s) ==
    IF \A i \in 1..Len(s) : IsSpace(s[i]) THEN <<>>
    ELSE LET first == CHOOSE i \in 1..Len(s) :
                          /\ ~IsSpace(s[i])
                          /\ \A j \in 1..(i-1) : IsSpace(s[j])
             last  == CHOOSE i \in 1..Len(s) :
                          /\ ~IsSpace(s[i])
                          /\ \A j \in (i+1)..Len(s) : IsSpace(s[j])
         IN  SubSeq(s, first, last)

\* \w of a JavaScript regular expression
IsWordChar(c) ==
    \/ c \in Digits
    \/ c = "_"
    \/ \E i \in 1..26 : UpperChars[i] = c \/ LowerChars[i] = c

(***************************************************************************)
(* Prober configuration.                                                   *)
(***************************************************************************)
MIN_PAGE_SIZE == 1500

MAX_PAGE_SIZE == 5242880

ACCEPTED_STATUS_CODES == {200, 301}

NA == <<"N","/","A">>

UNKNOWN == <<"u","n","k","n","o","w","n">>

\* Object.values(FILTERED_TERMS_GROUPED).flat()
FILTERED_TERMS ==
    << <<"d","o","m","a","i","n">>,
       <<"p","a","r","k","i","n","g">>,
       <<"h","o","s","t","i","n","g">>,
       <<"d","i","s","c","o","r","d",".","c","o","m">>,
       <<"y","o","u","t","u","b","e",".","c","o","m">>,
       <<"f","l","i","c","k","e","r",".","c","o","m">>,
       <<"l","i","n","k","e","d","i","n",".","c","o","m">>,
       <<"i","n","s","t","a","g","r","a","m",".","c","o","m">>,
       <<"f","l","i","p","b","o","a","r","d",".","c","o","m">>,
       <<"a","m","a","z","o","n",".","c","o","m">>,
       <<"e","b","a","y",".","c","o","m">>,
       <<"e","t","s","y",".","c","o","m">>,
       <<"p","a","p","a","r","a","z","z","i","a","c","c","e","s","s","o","r","i","e","s",".","c","o","m">>,
       <<"p","l","a","c","e","s","t","e","r",".","c","o","m">>,
       <<"r","e","m","a","x",".","c","o","m">>,
       <<"p","r","o","a","g","e","n","t","w","e","b","s","i","t","e","s",".","c","o","m">>,
       <<"m","a","r","r","i","o","t","t",".","c","o","m">>,
       <<"w","y","n","d","h","a","m","h","o","t","e","l","s",".","c","o","m">>,
       <<"v","a","c","a","s","a",".","c","o","m">>,
       <<"v","a","c","a","t","i","o","n","s","t","o","g","o",".","c","o","m">>,
       <<"r","e","s","o","r","t","v","a","c","a","t","i","o","n","s","t","o","g","o",".","c","o","m">>,
       <<"r","a","y","m","o","n","d","j","a","m","e","s",".","c","o","m">>,
       <<"v","i","s","a","h","q",".","c","o","m">>,
       <<"i","n","t","e","r","m","o","u","n","t","a","i","n","h","e","a","l","t","h","c","a","r","e",".","o","r","g">>,
       <<"d","i","g","n","i","t","y","m","e","m","o","r","i","a","l",".","c","o","m">>,
       <<"a","l","l","s","t","a","t","e",".","c","o","m">>,
       <<"d","y","n","a","d","o","t",".","c","o","m">>,
       <<"a","f","t","e","r","n","i","c">>,
       <<"s","e","d","o">>,
       <<"a","t","o","m",".","c","o","m">>,
       <<"c","l","i","c","k","f","u","n","n","e","l","s",".","c","o","m">>,
       <<"c","h","a","t","u","r","b","a","t","e",".","c","o","m">>,
       <<".","g","o","v">>,
       <<".","m","x">>,
       <<".","u","k">>,
       <<".","d","e">>,
       <<".","r","u">>,
       <<".","c","h">>,
       <<".","n","l">>,
       <<".","i","t">>,
       <<".","f","r">>,
       <<".","s","e">>,
       <<".","c","n">>,
       <<".","p","l">>,
       <<".","e","u">>,
       <<".","b","r">>,
       <<".","j","p">>,
       <<".","a","u">>,
       <<".","c","a">>,
       <<".","n","z">>,
       <<"z","o","n","e","i","r","a","q",".","c","o","m">> >>

ALLOWED_LANGUAGES == { <<"e","n">>, <<"e","n","-","u","s">> }

HTML_SCRAPE_STRICT ==
    << <<"t","h","i","s"," ","d","o","m","a","i","n"," ","i","s"," ","f","o","r"," ","s","a","l","e">>,
       <<"b","u","y"," ","t","h","i","s"," ","d","o","m","a","i","n">>,
       <<"d","o","m","a","i","n"," ","f","o","r"," ","s","a","l","e">>,
       <<"p","a","r","k","e","d"," ","f","r","e","e">>,
       <<"t","h","i","s"," ","s","i","t","e"," ","i","s"," ","p","a","r","k","e","d">>,
       <<"t","h","i","s"," ","p","a","g","e"," ","i","s"," ","p","a","r","k","e","d">>,
       <<"d","o","m","a","i","n"," ","p","a","r","k","i","n","g">>,
       <<"s","e","d","o","p","a","r","k","i","n","g">>,
       <<"s","e","d","o"," ","p","a","r","k","i","n","g">>,
       <<"a","f","t","e","r","n","i","c">>,
       <<"n","a","m","e","c","h","e","a","p"," ","m","a","r","k","e","t","p","l","a","c","e">>,
       <<"d","o","m","a","i","n"," ","i","s"," ","p","a","r","k","e","d">>,
       <<"p","a","r","k","i","n","g">>,
       <<"h","o","s","t","i","n","g">> >>

\* HTML_SCRAPE_TERMS.regex, each /i: a pattern is a sequence of literals and
\* \s+ items; the optional group (currently\s+)? is written as two
\* alternatives, the longer one tried first as the greedy ? does.
HTML_SCRAPE_REGEX ==
    << << <<[lit |-> <<"t","h","i","s">>], [ws |-> TRUE], [lit |-> <<"d","o","m","a","i","n">>], [ws |-> TRUE], [lit |-> <<"i","s">>], [ws |-> TRUE], [lit |-> <<"c","u","r","r","e","n","t","l","y">>], [ws |-> TRUE], [lit |-> <<"f","o","r">>], [ws |-> TRUE], [lit |-> <<"s","a","l","e">>]>>,
          <<[lit |-> <<"t","h","i","s">>], [ws |-> TRUE], [lit |-> <<"d","o","m","a","i","n">>], [ws |-> TRUE], [lit |-> <<"i","s">>], [ws |-> TRUE], [lit |-> <<"f","o","r">>], [ws |-> TRUE], [lit |-> <<"s","a","l","e">>]>> >>,
       << <<[lit |-> <<"b","u","y">>], [ws |-> TRUE], [lit |-> <<"t","h","i","s">>], [ws |-> TRUE], [lit |-> <<"d","o","m","a","i","n">>]>> >>,
       << <<[lit |-> <<"t","h","i","s">>], [ws |-> TRUE], [lit |-> <<"p","a","g","e">>], [ws |-> TRUE], [lit |-> <<"i","s">>], [ws |-> TRUE], [lit |-> <<"p","a","r","k","e","d">>]>> >>,
       << <<[lit |-> <<"d","o","m","a","i","n">>], [ws |-> TRUE], [lit |-> <<"p","a","r","k","i","n","g">>]>> >>,
       << <<[lit |-> <<"s","e","d","o","p","a","r","k","i","n","g">>]>> >>,
       << <<[lit |-> <<"a","f","t","e","r","n","i","c">>]>> >>,
       << <<[lit |-> <<"c","l","i","c","k">>], [ws |-> TRUE], [lit |-> <<"h","e","r","e">>], [ws |-> TRUE], [lit |-> <<"t","o">>], [ws |-> TRUE], [lit |-> <<"b","u","y">>]>> >> >>

(***************************************************************************)
(* Regular expressions of the prober.                                      *)
(***************************************************************************)
\* WW_SUBDOMAIN_REGEX = /\bww\d+\./
WW_SUBDOMAIN_REGEX(s) ==
    \E i \in 1..Len(s) : \E j \in (i+2)..(Len(s)-1) :
        /\ i = 1 \/ ~IsWordChar(s[i-1])
        /\ s[i] = "w" /\ s[i+1] = "w"
        /\ \A k \in (i+2)..j : s[k] \in Digits
        /\ s[j+1] = "."

\* number of whitespace characters of s from position i on
RECURSIVE SpaceRun(_, _)
SpaceRun(s, i) ==
    IF i <= Len(s) /\ IsSpace(s[i]) THEN 1 + SpaceRun(s, i + 1) ELSE 0

\* Where a match of items k.. of pat that starts at position i of s ends
\* (the position after it), 0 when there is none.  \s+ is greedy; every
\* \s+ is followed by a literal that starts with a non-space, so no
\* backtracking arises.
RECURSIVE MatchAt(_, _, _, _)
MatchAt(s, i, pat, k) ==
    IF k > Len(pat) THEN i
    ELSE IF "ws" \in DOMAIN pat[k]
    THEN LET n == SpaceRun(s, i)
         IN  IF n = 0 THEN 0 ELSE MatchAt(s, i + n, pat, k + 1)
    ELSE LET l == pat[k].lit
         IN  IF /\ i + Len(l) - 1 <= Len(s)
                /\ toLowerCase(SubSeq(s, i, i + Len(l) - 1)) = l
             THEN MatchAt(s, i + Len(l), pat, k + 1)
             ELSE 0

\* htmlContent.match(regex): match[0] of the leftmost match, <<>> for null
RegexMatch(s, alts) ==
    LET hits(i) == {a \in 1..Len(alts) : MatchAt(s, i, alts[a], 1) # 0}
        starts  == {i \in 1..Len(s) : hits(i) # {}}
    IN  IF starts = {} THEN <<>>
        ELSE LET i == CHOOSE x \in starts : \A y \in starts : x <= y
                 a == CHOOSE x \in hits(i) : \A y \in hits(i) : x <= y
             IN  SubSeq(s, i, MatchAt(s, i, alts[a], 1) - 1)

(***************************************************************************)
(* Numbers and their text.                                                 *)
(***************************************************************************)
DigitChars == <<"0","1","2","3","4","5","6","7","8","9">>

DigitVal(c) == (CHOOSE i \in 1..10 : DigitChars[i] = c) - 1

\* String(n) for n >= 0
RECURSIVE NatToText(_)
NatToText(n) ==
    IF n < 10 THEN <<DigitChars[n + 1]>>
    ELSE Append(NatToText(n \div 10), DigitChars[(n % 10) + 1])

RECURSIVE DigitsValue(_, _, _)
DigitsValue(s, i, acc) ==
    IF i <= Len(s) /\ s[i] \in Digits
    THEN DigitsValue(s, i + 1, acc * 10 + DigitVal(s[i]))
    ELSE acc

\* parseInt(s, 10): leading whitespace, an optional sign, then the longest
\* run of digits; NaN when there is no digit.
parseInt(s) ==
    LET start  == SpaceRun(s, 1) + 1
        signed == start <= Len(s) /\ s[start] \in {"+", "-"}
        first  == IF signed THEN start + 1 ELSE start
    IN  IF first > Len(s) \/ s[first] \notin Digits
        THEN [nan |-> TRUE, val |-> 0]
        ELSE [nan |-> FALSE,
              val |-> IF signed /\ s[start] = "-"
                      THEN 0 - DigitsValue(s, first, 0)
                      ELSE DigitsValue(s, first, 0)]

(***************************************************************************)
(* The prober: checkWebsite(domainData) of the worker.  net is what the    *)
(* network answers for this task: DNS, the fetch, the response, the body.  *)
(* An empty text stands for a missing value (undefined, null, "", an       *)
(* absent header), all of which JavaScript treats as false.  status holds  *)
(* a status code as its decimal text, so that the field has one type.      *)
(* error_reason is a message template and its interpolated argument.       *)
(***************************************************************************)
ERROR == <<"e","r","r","o","r">>

Reason(msg, arg) == [msg |-> msg, arg |-> arg]

Verdict(domain, listNumber, status, reason, pageSize, finalUrl, language) ==
    [domain |-> domain, list_number |-> listNumber, status |-> status,
     error_reason |-> reason, pageSize |-> pageSize, final_url |-> finalUrl,
     language |-> language]

\* detectedTerm of the content gate: first strict term included, else the
\* first regex's match, else <<>> (null)
DetectedTerm(htmlContent) ==
    LET strict == {k \in 1..Len(HTML_SCRAPE_STRICT) :
                      includes(htmlContent, HTML_SCRAPE_STRICT[k])}
        regex  == {k \in 1..Len(HTML_SCRAPE_REGEX) :
                      RegexMatch(htmlContent, HTML_SCRAPE_REGEX[k]) # <<>>}
    IN  IF strict # {}
        THEN HTML_SCRAPE_STRICT[CHOOSE k \in strict : \A m \in strict : k <= m]
        ELSE IF regex # {}
        THEN RegexMatch(htmlContent,
                 HTML_SCRAPE_REGEX[CHOOSE k \in regex : \A m \in regex : k <= m])
        ELSE <<>>

\* a resolver that answers for every name
checkDNSResolves(net) == TRUE

\* checkDNS(domain): true when dns.resolve resolves, false when it throws
checkDNS(net) == net.dns

\* a prober that only looks at the domain of its task
InvalidInputDomainOnly(domainData) == domainData.domain = <<>>

\* !domainData.domain || !domainData.list_number (the dispatchers always
\* hand over an object)
InvalidInput(domainData) ==
    domainData.domain = <<>> \/ domainData.list_number = <<>>

\* a prober that takes every status code
UnacceptedStatusNever(status) == FALSE

\* !ACCEPTED_STATUS_CODES.includes(status)
UnacceptedStatus(status) == status \notin ACCEPTED_STATUS_CODES

checkWebsite(domainData, net) ==
    IF InvalidInput(domainData)
    THEN Verdict(UNKNOWN, UNKNOWN, ERROR, Reason("Invalid domain data", <<>>),
                 0, NA, NA)
    ELSE
    LET domain     == trim(domainData.domain)
        listNumber == trim(domainData.list_number)
    IN
    IF ~checkDNS(net)
    THEN Verdict(domain, listNumber, ERROR,
                 Reason("DNS resolution failed", <<>>), 0, NA, NA)
    ELSE IF net.fetchThrows
    THEN Verdict(domain, listNumber, ERROR, Reason(net.message, <<>>), 0, NA, NA)
    ELSE
    LET status   == net.status
        finalUrl == toLowerCase(net.url)
    IN
    IF UnacceptedStatus(status)
    THEN Verdict(domain, listNumber, ERROR,
                 Reason("Unaccepted status code (%s)", NatToText(status)),
                 0, finalUrl, NA)
    ELSE IF \/ \E k \in 1..Len(FILTERED_TERMS) : includes(finalUrl, FILTERED_TERMS[k])
            \/ WW_SUBDOMAIN_REGEX(finalUrl)
    THEN Verdict(domain, listNumber, ERROR,
                 Reason("Filtered (Final URL contains a blocked term or ww## subdomain)", <<>>),
                 0, finalUrl, NA)
    ELSE
    LET languageHeader == net.contentLanguage
        language == IF languageHeader # <<>> THEN toLowerCase(languageHeader) ELSE NA
    IN
    IF languageHeader # <<>> /\ language \notin ALLOWED_LANGUAGES
    THEN Verdict(domain, listNumber, ERROR,
                 Reason("Bad language header (%s)", language), 0, finalUrl, language)
    ELSE IF net.textThrows
    THEN Verdict(domain, listNumber, ERROR, Reason(net.message, <<>>), 0, NA, language)
    ELSE
    LET htmlContent == net.body.text
        measured    == IF net.contentLength # <<>>
                       THEN parseInt(net.contentLength)
                       ELSE [nan |-> FALSE, val |-> net.body.bytes]
        pageSize    == IF measured.nan \/ measured.val = 0 THEN 0 ELSE measured.val
        detectedTerm == DetectedTerm(htmlContent)
    IN
    IF pageSize < MIN_PAGE_SIZE
    THEN Verdict(domain, listNumber, ERROR,
                 Reason("Page size too small (< %s bytes)", NatToText(MIN_PAGE_SIZE)),
                 pageSize, finalUrl, language)
    ELSE IF pageSize > MAX_PAGE_SIZE
    THEN Verdict(domain, listNumber, ERROR,
                 Reason("Page size too large (> %s bytes)", NatToText(MAX_PAGE_SIZE)),
                 pageSize, finalUrl, language)
    ELSE IF detectedTerm # <<>>
    THEN Verdict(domain, listNumber, ERROR,
                 Reason("Parking page detected: \"%s\"", detectedTerm),
                 pageSize, finalUrl, language)
    ELSE [domain |-> domain, list_number |-> listNumber,
          status |-> NatToText(status), pageSize |-> pageSize,
          final_url |-> finalUrl, language |-> language]

\* the steps checkWebsite takes for a task, in the order it takes them:
\* "dns" (await checkDNS), "fetch" (await fetch), "status", "url",
\* "language" (the tests of the response), "body" (await response.text()),
\* "size" (the two tests of pageSize) and "content" (the search of the
\* body for parking terms); every return and every throw ends the list
GatesEvaluated(domainData, net) ==
    IF InvalidInput(domainData) THEN <<>>
    ELSE IF ~checkDNS(net) THEN <<"dns">>
    ELSE IF net.fetchThrows THEN <<"dns", "fetch">>
    ELSE IF UnacceptedStatus(net.status) THEN <<"dns", "fetch", "status">>
    ELSE
    LET finalUrl == toLowerCase(net.url)
        language == toLowerCase(net.contentLanguage)
        sofar    == <<"dns", "fetch", "status", "url">>
    IN
    IF \/ \E k \in 1..Len(FILTERED_TERMS) : includes(finalUrl, FILTERED_TERMS[k])
       \/ WW_SUBDOMAIN_REGEX(finalUrl)
    THEN sofar
    ELSE IF net.contentLanguage # <<>> /\ language \notin ALLOWED_LANGUAGES
    THEN sofar \o <<"language">>
    ELSE IF net.textThrows
    THEN sofar \o <<"language", "body">>
    ELSE
    LET verdict == checkWebsite(domainData, net)
    IN  IF verdict.pageSize < MIN_PAGE_SIZE \/ verdict.pageSize > MAX_PAGE_SIZE
        THEN sofar \o <<"language", "body", "size">>
        ELSE sofar \o <<"language", "body", "size", "content">>

(***************************************************************************)
(* Inputs of the model.                                                    *)
(***************************************************************************)
\* domains found in to_be_scanned and in uploaded rows
QueueDomains == { <<"A",".","c","o","m">>, <<"b",".","c","o","m">> }

ListNumbers == { <<"1">>, <<"2">> }

\* the documents producers insert into to_be_scanned
QueueDocs ==
    { [domain |-> <<"A",".","c","o","m">>, list_number |-> <<"1">>],
      [domain |-> <<"b",".","c","o","m">>, list_number |-> <<"2">>] }

CleanUrl == <<"H","t","t","p",":","/","/","A",".","c","o","m","/">>

SedoUrl == <<"h","t","t","p",":","/","/","s","e","d","o","p","a","r","k","i","n","g",".","c","o","m","/">>

CleanBody == [bytes |-> 50000, text |-> <<"w","e","l","c","o","m","e">>]

NetGood ==
    [dns |-> TRUE, fetchThrows |-> FALSE, textThrows |-> FALSE,
     message |-> "", status |-> 200, url |-> CleanUrl,
     contentLanguage |-> <<"E","N">>, contentLength |-> <<>>, body |-> CleanBody]

\* what the network may answer to one probe
ProbeNets ==
    { NetGood,
      [NetGood EXCEPT !.url = SedoUrl, !.contentLength = <<"1","2","0","0">>] }

\* message of the TimeoutError that workerpool's Promise.timeout(10000)
\* rejects with
TimeoutMessage == "Promise timed out after 10000 ms"

\* messages of the other errors pool.exec rejects with (a worker that died)
CrashMessages == { "Workerpool Worker terminated Unexpectedly" }

\* how one pool.exec(...).timeout(10000) promise ends
TaskOutcomes ==
    [kind : {"verdict"}, net : ProbeNets, message : {""}]
        \cup [kind : {"timeout"}, net : {NetGood}, message : {TimeoutMessage}]
        \cup [kind : {"crash"}, net : {NetGood}, message : CrashMessages]

(***************************************************************************)
(* The dispatcher: one task per document or row, each with its own catch   *)
(* handler, then Promise.allSettled and the classification loop.           *)
(***************************************************************************)
Range(s) == {s[i] : i \in 1..Len(s)}

Fulfilled(value) == [status |-> "fulfilled", value |-> value]

Pending == [status |-> "pending"]

\* the record the .catch handler of a task resolves to
CatchRecord(domainData, reason) ==
    Verdict(domainData.domain, domainData.list_number, ERROR,
            Reason(reason, <<>>), 0, NA, NA)

\* a catch handler that records no reason
PollCatchSilent(domainData, message) == CatchRecord(domainData, "")

\* poller.js: .catch(error => ({ ..., error_reason: error.message || "Timeout exceeded" }))
PollCatch(domainData, message) ==
    CatchRecord(domainData, IF message # "" THEN message ELSE "Timeout exceeded")

\* processCSV: .catch(() => ({ ..., error_reason: "Timeout exceeded" }))
CsvCatch(domainData, message) ==
    CatchRecord(domainData, "Timeout exceeded")

\* pool.exec("checkWebsite", [domainData]): what the worker answers for
\* each task and each answer of the network, computed once
WorkerResults ==
    {[domainData |-> t[1], net |-> t[2], result |-> checkWebsite(t[1], t[2])] :
        t \in [domain : QueueDomains, list_number : ListNumbers] \X ProbeNets}

WorkerResult(domainData, net) ==
    (CHOOSE w \in WorkerResults :
        w.domainData = domainData /\ w.net = net).result

\* what Promise.allSettled reports for a task that ended as out
SettleTask(kind, domainData, out) ==
    IF out.kind = "verdict"
    THEN Fulfilled(WorkerResult(domainData, out.net))
    ELSE IF kind = "poll"
    THEN Fulfilled(PollCatch(domainData, out.message))
    ELSE Fulfilled(CsvCatch(domainData, out.message))

\* the record pushed for a rejected result
WorkerFailed ==
    Verdict(UNKNOWN, UNKNOWN, ERROR, Reason("Worker thread failed", <<>>), 0, NA, NA)

\* a test that looks at the size and the language only
IsGoodIgnoresStatus(data, allowed) ==
    data.pageSize > 0 /\ (toLowerCase(data.language) = <<"n","/","a">>
                              \/ toLowerCase(data.language) \in allowed)

\* a test that wants a Content-Language header
IsGoodNeedsLanguage(data, allowed) ==
    data.status # ERROR /\ data.pageSize > 0
        /\ toLowerCase(data.language) \in allowed

IsGood(data, allowed) ==
    LET normalizedLanguage == toLowerCase(data.language)
        isAllowedLanguage  == \/ normalizedLanguage = <<"n","/","a">>
                              \/ normalizedLanguage \in allowed
    IN  data.status # ERROR /\ data.pageSize > 0 /\ isAllowedLanguage

\* a callback that leaves out the records that carry an error
ClassifyResultSkipsErrors(lists, result, allowed) ==
    IF result.status = "fulfilled"
    THEN IF IsGood(result.value, allowed)
         THEN [lists EXCEPT !.good = Append(@, result.value)]
         ELSE IF result.value.status = ERROR
         THEN lists
         ELSE [lists EXCEPT !.bad = Append(@, result.value)]
    ELSE lists

\* the callback of results.forEach, on the two lists built so far
ClassifyResult(lists, result, allowed) ==
    IF result.status = "fulfilled"
    THEN IF IsGood(result.value, allowed)
         THEN [lists EXCEPT !.good = Append(@, result.value)]
         ELSE [lists EXCEPT !.bad = Append(@, result.value)]
    ELSE [lists EXCEPT !.bad = Append(@, WorkerFailed)]

\* results.forEach of processBatch and of processCSV: the two lists after
\* the first n results
RECURSIVE Classify(_, _, _)
Classify(results, n, allowed) ==
    IF n = 0 THEN [good |-> <<>>, bad |-> <<>>]
    ELSE ClassifyResult(Classify(results, n - 1, allowed), results[n], allowed)

(***************************************************************************)
(* The store: bulkWrite of updateOne upserts keyed by the lower-cased      *)
(* domain.  A collection is the sequence of its documents in insertion     *)
(* order.  updatedAt and createdAt, which nothing in the program reads,    *)
(* are not held.                                                           *)
(***************************************************************************)
\* { $set: { ...doc, domain: doc.domain.toLowerCase() } } on a stored document
SetFields(old, doc) ==
    [doc EXCEPT !.domain = toLowerCase(doc.domain)] @@ old

\* updateOne({ domain: lower }, { $set: ... }, { upsert: true })
UpdateOne(coll, doc) ==
    LET key  == toLowerCase(doc.domain)
        hits == {i \in 1..Len(coll) : coll[i].domain = key}
    IN  IF hits = {}
        THEN Append(coll, [doc EXCEPT !.domain = key])
        ELSE LET i == CHOOSE x \in hits : \A y \in hits : x <= y
             IN  [coll EXCEPT ![i] = SetFields(coll[i], doc)]

\* the first n operations of a bulkWrite, applied in order
RECURSIVE BulkWrite(_, _, _)
BulkWrite(coll, docs, n) ==
    IF n = 0 THEN coll ELSE UpdateOne(BulkWrite(coll, docs, n - 1), docs[n])

(***************************************************************************)
(* aggregateCountsByListNumber and recordListNumberStats.                  *)
(***************************************************************************)
CountOf(docs, ln) == Cardinality({i \in 1..Len(docs) : docs[i].list_number = ln})

\* the properties every object literal inherits from Object.prototype: for
\* these keys resultMap[ln] is a function (or, for __proto__, the prototype
\* itself) before anything has been stored under them
InheritedKeys ==
    { <<"c","o","n","s","t","r","u","c","t","o","r">>,
      <<"_","_","d","e","f","i","n","e","G","e","t","t","e","r","_","_">>,
      <<"_","_","d","e","f","i","n","e","S","e","t","t","e","r","_","_">>,
      <<"h","a","s","O","w","n","P","r","o","p","e","r","t","y">>,
      <<"_","_","l","o","o","k","u","p","G","e","t","t","e","r","_","_">>,
      <<"_","_","l","o","o","k","u","p","S","e","t","t","e","r","_","_">>,
      <<"i","s","P","r","o","t","o","t","y","p","e","O","f">>,
      <<"p","r","o","p","e","r","t","y","I","s","E","n","u","m","e","r","a","b","l","e">>,
      <<"t","o","S","t","r","i","n","g">>,
      <<"v","a","l","u","e","O","f">>,
      <<"_","_","p","r","o","t","o","_","_">>,
      <<"t","o","L","o","c","a","l","e","S","t","r","i","n","g">> }

\* resultMap = {}: `if (!resultMap[ln]) resultMap[ln] = {good: 0, bad: 0}`
\* creates an own entry for a key whose lookup gives undefined; for an
\* inherited key the lookup gives an object, no entry is created and the
\* ++ lands on the inherited object
aggregateCountsByListNumber(goodResults, badResults) ==
    LET keys == {d.list_number : d \in Range(goodResults) \cup Range(badResults)}
                    \ InheritedKeys
    IN  [ln \in keys |-> [good |-> CountOf(goodResults, ln),
                          bad  |-> CountOf(badResults, ln)]]

\* the own keys of the map in the order they were created: list numbers in
\* order of first appearance, good records first
RECURSIVE KeysInOrder(_, _)
KeysInOrder(docs, n) ==
    IF n = 0 THEN <<>>
    ELSE LET before == KeysInOrder(docs, n - 1)
         IN  IF docs[n].list_number \in Range(before) \cup InheritedKeys
             THEN before
             ELSE Append(before, docs[n].list_number)

\* a key that is the canonical text of an array index (the list numbers of
\* the model have at most nine digits)
IsArrayIndex(key) ==
    /\ key # <<>> /\ Len(key) <= 9
    /\ \A i \in 1..Len(key) : key[i] \in Digits
    /\ Len(key) = 1 \/ key[1] # "0"

RECURSIVE Ascending(_)
Ascending(keys) ==
    IF keys = {} THEN <<>>
    ELSE LET least == CHOOSE k \in keys : \A other \in keys :
                          DigitsValue(k, 1, 0) <= DigitsValue(other, 1, 0)
         IN  <<least>> \o Ascending(keys \ {least})

\* Object.entries(aggregatedCounts): the keys that are array indices in
\* ascending order, then the other keys in the order they were created
OwnKeysInOrder(created) ==
    Ascending({k \in Range(created) : IsArrayIndex(k)})
        \o SelectSeq(created, LAMBDA k : ~IsArrayIndex(k))

\* the list numbers that become keys of the map in the model
MapKeys == { <<"1">>, <<"2">>, <<"1","0">> }

\* the orders in which the keys can have been created, each with the
\* order Object.entries gives, computed once
EntryOrders ==
    { [created |-> c, entries |-> OwnKeysInOrder(c)] :
        c \in { q \in UNION {[1..n -> MapKeys] : n \in 0..Cardinality(MapKeys)} :
                   \A i, j \in 1..Len(q) : i # j => q[i] # q[j] } }

ObjectEntries(created) ==
    (CHOOSE e \in EntryOrders : e.created = created).entries

\* the documents recordListNumberStats builds, one per key of the map
StatsDocs(goodResults, badResults) ==
    LET aggregatedCounts == aggregateCountsByListNumber(goodResults, badResults)
        all  == goodResults \o badResults
        keys == ObjectEntries(KeysInOrder(all, Len(all)))
    IN  [k \in 1..Len(keys) |->
            [list_number |-> keys[k],
             good_count  |-> aggregatedCounts[keys[k]].good,
             bad_count   |-> aggregatedCounts[keys[k]].bad]]

(***************************************************************************)
(* State.  server.js (the poller and its uploadToMongoDB) and the upload   *)
(* server (processCSV and its uploadToMongoDB) are two variants of the     *)
(* server; a behaviour is one of them running.                             *)
(***************************************************************************)
VARIABLES
    server,              \* "poller", "upload", "writer" or "prober": the
                         \* part that runs
    isProcessing,        \* poller.js: let isProcessing
    run,                 \* the batch runs: 0 is the upload, n >= 1 the n-th
                         \* processBatch call
    to_be_scanned,       \* collection Archer_Group.to_be_scanned
    valid_domains,       \* collection Archer_Group.valid_domains
    failed_domains,      \* collection Archer_Group.failed_domains
    domain_scan_events,  \* collection Archer_Group.domain_scan_events
    triggers,            \* cron firings of pollToBeScanned so far
    started,             \* processBatch calls so far
    busyTriggers,        \* firings that found isProcessing set
    reads,               \* find() calls on to_be_scanned so far
    inserted,            \* documents ever inserted into to_be_scanned
    queue,               \* badDocsService.js: let queue
    mongoClient,         \* badDocsService.js: mongoClient is set
    threshold,           \* badDocsService.js: let threshold
    timer,               \* badDocsService.js: the interval timer runs
    flush,               \* the processQueue calls that took a snapshot
    calls,               \* addResultsQueue calls so far
    enqueued,            \* records ever pushed on queue
    written,             \* records that were part of a bulkWrite that succeeded
    triggered,           \* how the latest addResultsQueue call ended: "idle"
                         \* (no call yet), "not an array", "processQueue"
                         \* (it called processQueue) or "return"
    probe,               \* one call of the prober and its classification
    batch                \* one pair of classified lists and the calls of
                         \* uploadToMongoDB made with it

pollerVars == <<isProcessing, run, to_be_scanned>>

storeVars == <<valid_domains, failed_domains, domain_scan_events>>

countVars == <<triggers, started, busyTriggers, reads, inserted>>

writerVars == <<queue, mongoClient, threshold, timer, flush, calls, enqueued,
                written, triggered>>

probeVars == <<probe, batch>>

vars == <<server, pollerVars, storeVars, countVars, writerVars, probeVars>>

UploadRun == 0

PollRuns == 1..MaxTriggers

RunIds == {UploadRun} \cup PollRuns

RunKind(r) == IF r = UploadRun THEN "csv" ELSE "poll"

\* an upload server with the longer list of the first server.js
AllowedForFirstServer(kind) ==
    IF kind = "csv"
    THEN ALLOWED_LANGUAGES \cup { <<"e","n","-","g","b">>, <<"e","n","-","c","a">>,
                                  <<"e","n","-","a","u">>, <<"e","n","-","n","z">>,
                                  <<"e","n","-","i","n">> }
    ELSE ALLOWED_LANGUAGES

\* server.js hands its ALLOWED_LANGUAGES to the poller; the upload server
\* uses its own, equal, list
AllowedFor(kind) == ALLOWED_LANGUAGES

\* a run that has not started; outcome records how each task ended and
\* attempted which writes of uploadToMongoDB have been issued
IdleRun ==
    [pc |-> "idle", docs |-> <<>>, tasks |-> <<>>, outcome |-> <<>>,
     settled |-> <<>>, goodResults |-> <<>>, badResults |-> <<>>,
     uploadFailed |-> FALSE, attempted |-> {}]

InFlight(r) == run[r].pc \notin {"idle", "done"}

\* the results of the run have been classified
Classified(r) == run[r].pc \in {"goodWrite", "badWrite", "stats", "delete"}

(***************************************************************************)
(* Producers of to_be_scanned (outside the program).                       *)
(***************************************************************************)
InsertDoc(domain, listNumber) ==
    /\ server = "poller"
    /\ inserted < MaxDocs
    /\ inserted' = inserted + 1
    /\ to_be_scanned' = Append(to_be_scanned,
           [_id |-> inserted + 1, domain |-> domain, list_number |-> listNumber])
    /\ UNCHANGED <<server, isProcessing, run, storeVars, triggers, started,
                   busyTriggers, reads, writerVars, probeVars>>

(***************************************************************************)
(* pollToBeScanned.                                                        *)
(***************************************************************************)
\* a poller without the check of the flag
SkipsNever(busy) == FALSE

\* if (isProcessing) { ...; return; }
Skips(busy) == busy

PollSkip ==
    /\ server = "poller"
    /\ triggers < MaxTriggers
    /\ Skips(isProcessing)
    /\ triggers' = triggers + 1
    /\ busyTriggers' = busyTriggers + 1
    /\ UNCHANGED <<server, pollerVars, storeVars, started, reads, inserted,
                   writerVars, probeVars>>

\* isProcessing = true; processBatch() runs up to its find()
PollStart ==
    /\ server = "poller"
    /\ triggers < MaxTriggers
    /\ ~Skips(isProcessing)
    /\ triggers' = triggers + 1
    /\ busyTriggers' = IF isProcessing THEN busyTriggers + 1 ELSE busyTriggers
    /\ started' = started + 1
    /\ isProcessing' = TRUE
    /\ run' = [run EXCEPT ![started + 1] = [IdleRun EXCEPT !.pc = "find"]]
    /\ UNCHANGED <<server, to_be_scanned, storeVars, reads, inserted,
                   writerVars, probeVars>>

\* a pollToBeScanned without the finally
FinishKeepsFlag(r) ==
    /\ run' = [run EXCEPT ![r] = [IdleRun EXCEPT !.pc = "done"]]
    /\ UNCHANGED isProcessing

\* the end of a run: processBatch returns or catches and the finally of
\* pollToBeScanned clears the flag; processCSV resolves.  The locals of
\* the run are gone.
Finish(r) ==
    /\ run' = [run EXCEPT ![r] = [IdleRun EXCEPT !.pc = "done"]]
    /\ isProcessing' = IF RunKind(r) = "poll" THEN FALSE ELSE isProcessing

(***************************************************************************)
(* processBatch.                                                           *)
(***************************************************************************)
\* the oldest batchSize documents of a collection, oldest first
Slice(coll, batchSize) ==
    SubSeq(coll, 1, IF Len(coll) < batchSize THEN Len(coll) ELSE batchSize)


\* find().limit(batchSize).toArray(): the query names no sort, so the
\* server returns the documents in an order of its own choosing and the
\* limit cuts that order; any batchSize documents, in any order, can be
\* the result
FindResults(coll, batchSize) ==
    LET n == IF Len(coll) < batchSize THEN Len(coll) ELSE batchSize
    IN  { [i \in 1..n |-> coll[p[i]]] :
            p \in { q \in [1..n -> 1..Len(coll)] :
                       \A i, j \in 1..n : i # j => q[i] # q[j] } }

DomainData(doc) == [domain |-> doc.domain, list_number |-> doc.list_number]

\* the tasks of a batch, none settled
WithTasks(rec, tasks) ==
    [rec EXCEPT !.pc = "tasks", !.tasks = tasks,
                !.outcome = [i \in 1..Len(tasks) |-> [kind |-> "pending"]],
                !.settled = [i \in 1..Len(tasks) |-> Pending]]

\* find() throws: the catch of processBatch logs
FindFails(r) ==
    /\ r \in PollRuns /\ run[r].pc = "find"
    /\ reads' = reads + 1
    /\ Finish(r)
    /\ UNCHANGED <<server, to_be_scanned, storeVars, triggers, started,
                   busyTriggers, inserted, writerVars, probeVars>>

\* a processBatch that goes on with an empty batch
IsEmptyBatchNever(docs) == FALSE

\* if (docs.length === 0) { ...; return; }
IsEmptyBatch(docs) == Len(docs) = 0

FindEmpty(r) ==
    /\ r \in PollRuns /\ run[r].pc = "find"
    /\ \E docs \in FindResults(to_be_scanned, BatchSize) : IsEmptyBatch(docs)
    /\ reads' = reads + 1
    /\ Finish(r)
    /\ UNCHANGED <<server, to_be_scanned, storeVars, triggers, started,
                   busyTriggers, inserted, writerVars, probeVars>>

FindDocs(r) ==
    /\ r \in PollRuns /\ run[r].pc = "find"
    /\ reads' = reads + 1
    /\ \E docs \in FindResults(to_be_scanned, BatchSize) :
           /\ ~IsEmptyBatch(docs)
           /\ run' = [run EXCEPT ![r] =
                  WithTasks([run[r] EXCEPT !.docs = docs],
                            [i \in 1..Len(docs) |-> DomainData(docs[i])])]
    /\ UNCHANGED <<server, isProcessing, to_be_scanned, storeVars, triggers,
                   started, busyTriggers, inserted, writerVars, probeVars>>

(***************************************************************************)
(* processCSV: the rows with a domain and a list_number become tasks.      *)
(***************************************************************************)
RECURSIVE RowTasks(_, _)
RowTasks(rows, n) ==
    IF n = 0 THEN <<>>
    ELSE IF rows[n].domain # <<>> /\ rows[n].list_number # <<>>
    THEN Append(RowTasks(rows, n - 1),
                [domain |-> trim(rows[n].domain),
                 list_number |-> trim(rows[n].list_number)])
    ELSE RowTasks(rows, n - 1)

\* the rows of an uploaded file; an empty domain is a row without one
CsvRows ==
    UNION {[1..n -> [domain : QueueDomains \cup {<<>>}, list_number : ListNumbers]] :
              n \in 1..MaxRows}

\* after the writes of uploadToMongoDB: the poller's version records the
\* stats, the upload's returns
AfterWrites(r) == IF RunKind(r) = "poll" THEN "stats" ELSE "done"

\* where uploadToMongoDB starts for the two lists
UploadEntry(r, good, bad) ==
    IF good # <<>> THEN "goodWrite"
    ELSE IF bad # <<>> THEN "badWrite"
    ELSE AfterWrites(r)

\* the writes of uploadToMongoDB are over
Written(r, rec) ==
    IF AfterWrites(r) = "done"
    THEN Finish(r)
    ELSE /\ run' = [run EXCEPT ![r] = [rec EXCEPT !.pc = AfterWrites(r)]]
         /\ UNCHANGED isProcessing

\* the file has been read: every task is in flight
Upload(rows) ==
    /\ server = "upload"
    /\ run[UploadRun].pc = "idle"
    /\ LET tasks == RowTasks(rows, Len(rows))
       IN  IF tasks = <<>>
           THEN Finish(UploadRun)
           ELSE /\ run' = [run EXCEPT ![UploadRun] = WithTasks(IdleRun, tasks)]
                /\ UNCHANGED isProcessing
    /\ UNCHANGED <<server, to_be_scanned, storeVars, countVars,
                   writerVars, probeVars>>

(***************************************************************************)
(* The tasks of a run settle one by one; when all have, the run classifies *)
(* the results and calls uploadToMongoDB.                                  *)
(***************************************************************************)
\* one timer for the whole batch: a timeout ends every task that is still
\* pending, each with the record of its catch handler
TaskSettlesBatchTimer(r, i, out) ==
    /\ run[r].pc = "tasks"
    /\ i \in 1..Len(run[r].tasks)
    /\ run[r].settled[i] = Pending
    /\ run' = [run EXCEPT
           ![r].outcome[i] = out,
           ![r].settled = [j \in 1..Len(run[r].tasks) |->
               IF j = i \/ (out.kind = "timeout" /\ run[r].settled[j] = Pending)
               THEN SettleTask(RunKind(r), run[r].tasks[j], out)
               ELSE run[r].settled[j]]]
    /\ UNCHANGED <<server, isProcessing, to_be_scanned, storeVars, countVars,
                   writerVars, probeVars>>

\* the promise of task i settles: by the worker's answer, or by the
\* catch handler after a timeout or a worker failure
TaskSettles(r, i, out) ==
    /\ run[r].pc = "tasks"
    /\ i \in 1..Len(run[r].tasks)
    /\ run[r].settled[i] = Pending
    /\ run' = [run EXCEPT ![r].outcome[i] = out,
                          ![r].settled[i] = SettleTask(RunKind(r), run[r].tasks[i], out)]
    /\ UNCHANGED <<server, isProcessing, to_be_scanned, storeVars, countVars,
                   writerVars, probeVars>>

AllSettled(r) ==
    /\ run[r].pc = "tasks"
    /\ \A i \in 1..Len(run[r].tasks) : run[r].settled[i] # Pending
    /\ LET lists == Classify(run[r].settled, Len(run[r].settled), AllowedFor(RunKind(r)))
       IN  run' = [run EXCEPT ![r].goodResults = lists.good,
                              ![r].badResults = lists.bad,
                              ![r].pc = UploadEntry(r, lists.good, lists.bad)]
    /\ UNCHANGED <<server, isProcessing, to_be_scanned, storeVars, countVars,
                   writerVars, probeVars>>

(***************************************************************************)
(* uploadToMongoDB: the good bulkWrite, then the bad one, both inside one  *)
(* try whose catch only logs; then (poller) the stats insert, outside it.  *)
(* A bulkWrite is ordered: when it fails, the operations before the        *)
(* failing one have been applied.                                          *)
(***************************************************************************)
GoodWriteOk(r) ==
    /\ run[r].pc = "goodWrite"
    /\ valid_domains' = BulkWrite(valid_domains, run[r].goodResults,
                                  Len(run[r].goodResults))
    /\ LET rec == [run[r] EXCEPT !.attempted = @ \cup {"good"}]
       IN  IF run[r].badResults # <<>>
           THEN /\ run' = [run EXCEPT ![r] = [rec EXCEPT !.pc = "badWrite"]]
                /\ UNCHANGED isProcessing
           ELSE Written(r, rec)
    /\ UNCHANGED <<server, to_be_scanned, failed_domains, domain_scan_events,
                   countVars, writerVars, probeVars>>

GoodWriteFails(r, applied) ==
    /\ run[r].pc = "goodWrite"
    /\ applied \in 0..(Len(run[r].goodResults) - 1)
    /\ valid_domains' = BulkWrite(valid_domains, run[r].goodResults, applied)
    /\ Written(r, [run[r] EXCEPT !.uploadFailed = TRUE,
                                 !.attempted = @ \cup {"good"}])
    /\ UNCHANGED <<server, to_be_scanned, failed_domains, domain_scan_events,
                   countVars, writerVars, probeVars>>

BadWriteOk(r) ==
    /\ run[r].pc = "badWrite"
    /\ failed_domains' = BulkWrite(failed_domains, run[r].badResults,
                                   Len(run[r].badResults))
    /\ Written(r, [run[r] EXCEPT !.attempted = @ \cup {"bad"}])
    /\ UNCHANGED <<server, to_be_scanned, valid_domains, domain_scan_events,
                   countVars, writerVars, probeVars>>

BadWriteFails(r, applied) ==
    /\ run[r].pc = "badWrite"
    /\ applied \in 0..(Len(run[r].badResults) - 1)
    /\ failed_domains' = BulkWrite(failed_domains, run[r].badResults, applied)
    /\ Written(r, [run[r] EXCEPT !.uploadFailed = TRUE,
                                 !.attempted = @ \cup {"bad"}])
    /\ UNCHANGED <<server, to_be_scanned, valid_domains, domain_scan_events,
                   countVars, writerVars, probeVars>>

\* domain_scan_events is only ever inserted into and never read: the model
\* holds how many documents it has and those of the latest insertMany
InsertMany(coll, docs) ==
    [count |-> coll.count + Len(docs), latest |-> docs]

\* if (docs.length > 0) await statsCollection.insertMany(docs)
recordListNumberStats(coll, docs) ==
    IF Len(docs) > 0 THEN InsertMany(coll, docs) ELSE coll

\* recordListNumberStats: insertMany of one document per list number
StatsOk(r) ==
    /\ run[r].pc = "stats"
    /\ domain_scan_events' =
           recordListNumberStats(domain_scan_events,
               StatsDocs(run[r].goodResults, run[r].badResults))
    /\ run' = [run EXCEPT ![r].pc = "delete",
                          ![r].attempted = @ \cup {"stats"}]
    /\ UNCHANGED <<server, isProcessing, to_be_scanned, valid_domains,
                   failed_domains, countVars, writerVars, probeVars>>

\* a processBatch that deletes what it read although insertMany threw
StatsFailsDeletes(r) ==
    /\ run[r].pc = "stats"
    /\ to_be_scanned' =
           SelectSeq(to_be_scanned,
                     LAMBDA doc : doc._id \notin {d._id : d \in Range(run[r].docs)})
    /\ Finish(r)
    /\ UNCHANGED <<server, storeVars, countVars, writerVars, probeVars>>

\* insertMany throws: uploadToMongoDB rejects, processBatch catches
StatsFails(r) ==
    /\ run[r].pc = "stats"
    /\ Finish(r)
    /\ UNCHANGED <<server, to_be_scanned, storeVars, countVars,
                   writerVars, probeVars>>

(***************************************************************************)
(* processBatch, after uploadToMongoDB: deleteMany({_id: {$in: ids}}).     *)
(***************************************************************************)
\* a delete by the domains of the documents read
DeleteManyByDomain(coll, ids) ==
    LET domains == {coll[i].domain : i \in {j \in 1..Len(coll) : coll[j]._id \in ids}}
    IN  SelectSeq(coll, LAMBDA doc : doc.domain \notin domains)

\* deleteMany({ _id: { $in: idsToDelete } })
DeleteMany(coll, ids) == SelectSeq(coll, LAMBDA doc : doc._id \notin ids)

\* a processBatch that ends without its deleteMany
DeleteOkKeepsEntries(r) ==
    /\ run[r].pc = "delete"
    /\ Finish(r)
    /\ UNCHANGED <<server, to_be_scanned, storeVars, countVars,
                   writerVars, probeVars>>

DeleteOk(r) ==
    /\ run[r].pc = "delete"
    /\ to_be_scanned' = DeleteMany(to_be_scanned, {d._id : d \in Range(run[r].docs)})
    /\ Finish(r)
    /\ UNCHANGED <<server, storeVars, countVars, writerVars, probeVars>>

DeleteFails(r) ==
    /\ run[r].pc = "delete"
    /\ Finish(r)
    /\ UNCHANGED <<server, to_be_scanned, storeVars, countVars,
                   writerVars, probeVars>>

(***************************************************************************)
(* The batch specification: the poller or one upload, and the producers.   *)
(***************************************************************************)
\* a processQueue call that has not happened
NoFlush == [pc |-> "idle", docsToProcess |-> <<>>, during |-> {}]

\* badDocsService.js as loaded: let queue = [], mongoClient = null,
\* threshold = 100, timer = null
WriterIdle ==
    /\ queue = <<>>
    /\ mongoClient = FALSE
    /\ threshold = 100
    /\ timer = FALSE
    /\ flush = [f \in 1..MaxFlushes |-> NoFlush]
    /\ calls = 0
    /\ enqueued = 0
    /\ written = {}
    /\ triggered = "idle"

StoreEmpty ==
    /\ valid_domains = <<>>
    /\ failed_domains = <<>>
    /\ domain_scan_events = [count |-> 0, latest |-> <<>>]

PollerIdle ==
    /\ isProcessing = FALSE
    /\ run = [r \in RunIds |-> IdleRun]
    /\ to_be_scanned = <<>>
    /\ triggers = 0
    /\ started = 0
    /\ busyTriggers = 0
    /\ reads = 0
    /\ inserted = 0

\* no call of the prober is followed
NoProbe == [pc |-> "idle"]

\* no pair of lists is followed
NoBatch == [uploads |-> 0]

ProbeIdle == probe = NoProbe /\ batch = NoBatch

Init ==
    /\ server \in {"poller", "upload"}
    /\ PollerIdle /\ StoreEmpty /\ WriterIdle /\ ProbeIdle

\* what run r does next: one of its awaits settles
RunStep(r) ==
    \/ FindFails(r)
    \/ FindEmpty(r)
    \/ FindDocs(r)
    \/ \E i \in 1..Len(run[r].tasks), out \in TaskOutcomes : TaskSettles(r, i, out)
    \/ AllSettled(r)
    \/ \E k \in 0..Len(run[r].goodResults) : GoodWriteFails(r, k)
    \/ GoodWriteOk(r)
    \/ \E k \in 0..Len(run[r].badResults) : BadWriteFails(r, k)
    \/ BadWriteOk(r)
    \/ StatsFails(r)
    \/ StatsOk(r)
    \/ DeleteFails(r)
    \/ DeleteOk(r)

Next ==
    \/ \E d \in QueueDocs : InsertDoc(d.domain, d.list_number)
    \/ PollSkip
    \/ PollStart
    \/ \E rows \in CsvRows : Upload(rows)
    \/ \E r \in RunIds : RunStep(r)

Spec == Init /\ [][Next]_vars

\* every await of a run settles: the driver's promises resolve or reject,
\* and a task's promise is settled by .timeout(10000) at the latest
RunFairness == \A r \in RunIds : WF_vars(RunStep(r))

SpecFair == Spec /\ RunFairness

(***************************************************************************)
(* Properties of the poller and of the dispatcher.                         *)
(***************************************************************************)
Ids(docs) == {d._id : d \in Range(docs)}

\* how often v occurs in s
Count(s, v) == Cardinality({i \in 1..Len(s) : s[i] = v})

HasReason(rec, msgs) ==
    "error_reason" \in DOMAIN rec /\ rec.error_reason.msg \in msgs

\* C1: at most one processBatch run is in flight at any time; a trigger
\* that found isProcessing set started no run and read nothing from
\* to_be_scanned (every trigger either found the flag set or started the
\* one run that may read once); no document is held by two runs in flight.
C1_OneBatchInFlight ==
    /\ Cardinality({r \in PollRuns : InFlight(r)}) <= 1
    /\ (\E r \in PollRuns : InFlight(r)) => isProcessing
    /\ started + busyTriggers = triggers
    /\ reads <= started
    /\ \A r1, r2 \in PollRuns :
           (r1 # r2 /\ InFlight(r1) /\ InFlight(r2))
               => Ids(run[r1].docs) \cap Ids(run[r2].docs) = {}

\* a trigger found the flag set while a batch had its tasks in flight
C1_TriggerWhileBusy ==
    /\ busyTriggers > 0
    /\ \E r \in PollRuns : run[r].pc = "tasks" /\ Len(run[r].docs) = BatchSize

\* C2: a step of a poller run that deletes entries of to_be_scanned is
\* taken only by a run none of whose bulk upserts failed.
C2_DeleteOnlyAfterUpserts ==
    [][\A r \in PollRuns :
          (run[r].pc = "delete" /\ to_be_scanned' # to_be_scanned)
              => ~run[r].uploadFailed]_vars

\* C7: once the tasks of a batch have settled and been classified there
\* are exactly as many records as tasks, every task's record is in
\* exactly one of goodResults and badResults, and the two lists together
\* hold each record as often as the tasks produced it.
C7_OneRecordPerTask ==
    \A r \in RunIds : Classified(r) =>
        LET good    == run[r].goodResults
            bad     == run[r].badResults
            records == [i \in 1..Len(run[r].settled) |-> run[r].settled[i].value]
        IN  /\ Len(good) + Len(bad) = Len(run[r].tasks)
            /\ Range(good) \cap Range(bad) = {}
            /\ \A v \in Range(records) \cup Range(good) \cup Range(bad) :
                   Count(good, v) + Count(bad, v) = Count(records, v)

\* a classified batch of two tasks, one whose probe gave a good verdict
\* and one that ended in its catch handler
C7_MixedBatchClassified ==
    \E r \in RunIds :
        /\ Classified(r)
        /\ Len(run[r].tasks) = 2
        /\ Len(run[r].goodResults) = 1
        /\ \E i \in 1..2 : run[r].outcome[i].kind = "timeout"

\* C8: a task that exceeded its timeout has, once the batch is classified,
\* a bad record for its domain whose reason is "timeout exceeded" (in
\* either capitalisation).
C8_TimeoutReason ==
    \A r \in RunIds : Classified(r) =>
        \A i \in 1..Len(run[r].tasks) :
            run[r].outcome[i].kind = "timeout" =>
                \E j \in 1..Len(run[r].badResults) :
                    /\ run[r].badResults[j].domain = run[r].tasks[i].domain
                    /\ HasReason(run[r].badResults[j],
                                 {"timeout exceeded", "Timeout exceeded"})

\* C9: whatever happens to the other tasks of a batch, a task is settled
\* only by its own outcome, the record of a task whose probe answered is
\* the one checkWebsite computed for it (WorkerResult), and that record is
\* among the classified ones.
C9_SiblingsUnaffected ==
    \A r \in RunIds : \A i \in 1..Len(run[r].tasks) :
        LET out == run[r].outcome[i]
        IN  /\ (out.kind = "pending") <=> (run[r].settled[i] = Pending)
            /\ out.kind = "verdict" =>
                   LET own == WorkerResult(run[r].tasks[i], out.net)
                   IN  /\ run[r].settled[i] = Fulfilled(own)
                       /\ Classified(r) =>
                              own \in Range(run[r].goodResults)
                                          \cup Range(run[r].badResults)

\* a classified batch in which one task timed out and the other, settled
\* after it, has its own probe's good verdict
C9_TimeoutBesideVerdict ==
    \E r \in RunIds :
        /\ Classified(r)
        /\ Len(run[r].tasks) = 2
        /\ \E i, j \in 1..2 :
               /\ run[r].outcome[i].kind = "timeout"
               /\ run[r].outcome[j].kind = "verdict"
               /\ run[r].goodResults = <<WorkerResult(run[r].tasks[j], NetGood)>>

\* C10: a task whose worker failed with an error that is not a timeout
\* is reported as rejected by Promise.allSettled and has, once the batch
\* is classified, the synthetic bad record with reason "Worker thread
\* failed".
C10_WorkerFailureRecord ==
    \A r \in RunIds : \A i \in 1..Len(run[r].tasks) :
        run[r].outcome[i].kind = "crash" =>
            /\ run[r].settled[i].status = "rejected"
            /\ Classified(r) => WorkerFailed \in Range(run[r].badResults)

(***************************************************************************)
(* badDocsService.js: the deferred writer of bad records.  A record is     *)
(* its domain and n, its position among the records ever pushed, which     *)
(* stands for the fields that tell two records of one domain apart.        *)
(***************************************************************************)
WriterDomains ==
    { <<"A",".","c","o","m">>, <<"a",".","c","o","m">>, <<"b",".","c","o","m">> }

\* the domain of a record that has none (undefined)
NoDomain == <<>>

\* doc.domain.toLowerCase() throws a TypeError
Malformed(doc) == doc.domain = NoDomain

\* arrays with a record that has no domain, alone and after another record
MalformedBatches ==
    { <<NoDomain>>, << <<"a",".","c","o","m">>, NoDomain >> }

\* the arrays addResultsQueue is called with
BadBatches ==
    UNION {[1..n -> WriterDomains] : n \in 0..MaxBad} \cup MalformedBatches

\* the processQueue calls whose bulkWrite is outstanding
Flushing(fl) == {f \in DOMAIN fl : fl[f].pc = "write"}

\* the place in flush of the next processQueue call that issues a bulkWrite
FreeSlot(fl) ==
    CHOOSE f \in DOMAIN fl \ Flushing(fl) : \A g \in DOMAIN fl \ Flushing(fl) : f <= g

Ended == [pc |-> "ended", docsToProcess |-> <<>>, during |-> {}]

\* initBadDocsService({ client, threshold, interval }), called once
InitBadDocsService(thresh) ==
    /\ server = "writer"
    /\ ~mongoClient
    /\ mongoClient' = TRUE
    /\ threshold' = thresh
    /\ timer' = TRUE
    /\ UNCHANGED <<server, pollerVars, probeVars, storeVars, countVars, queue, flush,
                   calls, enqueued, written, triggered>>

\* a catch that only logs
RequeueNothing(docsToProcess, q) == q

\* catch (err) { queue = docsToProcess.concat(queue); }
Requeue(docsToProcess, q) == docsToProcess \o q

\* processQueue up to its await: the two early returns, else the snapshot
\* docsToProcess = queue.slice(), queue = []; then docsToProcess.map
\* throws on a record without a domain and the catch runs at once, else
\* the bulkWrite is issued
processQueue(q, fl) ==
    IF ~mongoClient \/ Len(q) = 0
    THEN [queue |-> q, flush |-> fl]
    ELSE IF \E i \in 1..Len(q) : Malformed(q[i])
    THEN [queue |-> Requeue(q, <<>>), flush |-> fl]
    ELSE [queue |-> <<>>,
          flush |-> [fl EXCEPT ![FreeSlot(fl)] =
                        [pc |-> "write", docsToProcess |-> q, during |-> {}]]]

\* the model follows at most MaxFlushes outstanding bulkWrites
CanFlush(q) ==
    (mongoClient /\ Len(q) > 0) => Cardinality(Flushing(flush)) < MaxFlushes

\* a test that lets the queue grow one past the threshold
AboveThreshold(len, thresh) == len > thresh

\* if (queue.length >= threshold)
AtThreshold(len, thresh) == len >= thresh

\* addResultsQueue(badResults): push, then processQueue() when the queue
\* has reached the threshold; during notes the records pushed while a
\* bulkWrite is outstanding
AddResultsQueue(isArray, badResults) ==
    /\ server = "writer"
    /\ calls < MaxCalls
    /\ enqueued + Len(badResults) <= MaxBad
    /\ calls' = calls + 1
    /\ IF ~isArray
       THEN triggered' = "not an array" /\ UNCHANGED <<queue, flush, enqueued>>
       ELSE LET docs   == [i \in 1..Len(badResults) |->
                              [domain |-> badResults[i], n |-> enqueued + i]]
                pushed == queue \o docs
                noted  == [f \in DOMAIN flush |->
                              IF flush[f].pc = "write"
                              THEN [flush[f] EXCEPT !.during =
                                       @ \cup {d.n : d \in Range(docs)}]
                              ELSE flush[f]]
                after  == IF AtThreshold(Len(pushed), threshold)
                          THEN processQueue(pushed, noted)
                          ELSE [queue |-> pushed, flush |-> noted]
            IN  /\ AtThreshold(Len(pushed), threshold) => CanFlush(pushed)
                /\ triggered' = IF AtThreshold(Len(pushed), threshold)
                                THEN "processQueue" ELSE "return"
                /\ enqueued' = enqueued + Len(docs)
                /\ queue' = after.queue
                /\ flush' = after.flush
    /\ UNCHANGED <<server, pollerVars, probeVars, storeVars, countVars, mongoClient,
                   threshold, timer, written>>

\* setInterval(processQueue, processingInterval) fires
TimerTick ==
    /\ server = "writer"
    /\ timer
    /\ CanFlush(queue)
    /\ LET after == processQueue(queue, flush)
       IN  queue' = after.queue /\ flush' = after.flush
    /\ UNCHANGED <<server, pollerVars, probeVars, storeVars, countVars, mongoClient,
                   threshold, timer, calls, enqueued, written,
                   triggered>>

\* bulkWrite(bulkOps, { ordered: false }): the server applies the
\* operations in an order of its choosing, and goes on after one that
\* fails.  Every operation sets all the fields of its record, so what the
\* collection holds afterwards is decided, for each lower-cased domain, by
\* the operation applied last.  LastApplied is the choices of those
\* operations: at most one position of docs per domain, and one for every
\* domain when all operations took effect.
LastApplied(docs, all) ==
    {S \in SUBSET (1..Len(docs)) :
        /\ \A i, j \in S :
               i # j => toLowerCase(docs[i].domain) # toLowerCase(docs[j].domain)
        /\ all => \A i \in 1..Len(docs) :
                      \E j \in S :
                          toLowerCase(docs[j].domain) = toLowerCase(docs[i].domain)}

\* the collection after the operations at the positions in S
RECURSIVE UnorderedWrite(_, _, _, _)
UnorderedWrite(coll, docs, S, n) ==
    IF n = 0 THEN coll
    ELSE LET before == UnorderedWrite(coll, docs, S, n - 1)
         IN  IF n \in S THEN UpdateOne(before, docs[n]) ELSE before

\* the bulkWrite of flush f resolves
BulkWriteOk(f, S) ==
    /\ server = "writer"
    /\ flush[f].pc = "write"
    /\ S \in LastApplied(flush[f].docsToProcess, TRUE)
    /\ failed_domains' = UnorderedWrite(failed_domains, flush[f].docsToProcess,
                                        S, Len(flush[f].docsToProcess))
    /\ written' = written \cup Range(flush[f].docsToProcess)
    /\ flush' = [flush EXCEPT ![f] = Ended]
    /\ UNCHANGED <<server, pollerVars, probeVars, valid_domains, domain_scan_events,
                   countVars, queue, mongoClient, threshold, timer, calls,
                   enqueued, triggered>>

\* the bulkWrite of flush f rejects, some of its operations applied
BulkWriteFails(f, S) ==
    /\ server = "writer"
    /\ flush[f].pc = "write"
    /\ S \in LastApplied(flush[f].docsToProcess, FALSE)
    /\ failed_domains' = UnorderedWrite(failed_domains, flush[f].docsToProcess,
                                        S, Len(flush[f].docsToProcess))
    /\ queue' = Requeue(flush[f].docsToProcess, queue)
    /\ flush' = [flush EXCEPT ![f] = Ended]
    /\ UNCHANGED <<server, pollerVars, probeVars, valid_domains, domain_scan_events,
                   countVars, mongoClient, threshold, timer, calls, enqueued,
                   written, triggered>>

(***************************************************************************)
(* The writer specification: badDocsService.js and its callers.            *)
(***************************************************************************)
InitWriter ==
    /\ server = "writer"
    /\ PollerIdle /\ StoreEmpty /\ WriterIdle /\ ProbeIdle

NextWriter ==
    \/ \E thresh \in 1..MaxBad : InitBadDocsService(thresh)
    \/ \E badResults \in BadBatches : AddResultsQueue(TRUE, badResults)
    \/ AddResultsQueue(FALSE, <<>>)
    \/ TimerTick
    \/ \E f \in 1..MaxFlushes :
        \/ \E S \in SUBSET (1..Len(flush[f].docsToProcess)) : BulkWriteOk(f, S)
        \/ \E S \in SUBSET (1..Len(flush[f].docsToProcess)) : BulkWriteFails(f, S)

SpecWriter == InitWriter /\ [][NextWriter]_vars

\* setInterval keeps firing, every bulkWrite issued settles, and the store
\* does not reject bulkWrites for ever
WriterFairness ==
    /\ WF_vars(TimerTick)
    /\ \A f \in 1..MaxFlushes :
           WF_vars(\E S \in SUBSET (1..Len(flush[f].docsToProcess)) :
                      BulkWriteOk(f, S) \/ BulkWriteFails(f, S))
    /\ SF_vars(\E f \in 1..MaxFlushes :
                  \E S \in SUBSET (1..Len(flush[f].docsToProcess)) :
                      BulkWriteOk(f, S))

SpecWriterFair == SpecWriter /\ WriterFairness

(***************************************************************************)
(* Properties of the deferred writer.                                      *)
(***************************************************************************)
Numbers(docs) == {d.n : d \in Range(docs)}

\* C3: every record ever pushed is in the queue, in the snapshot of a
\* processQueue call whose bulkWrite is outstanding, or was part of a
\* bulkWrite that succeeded.
C3_NothingDropped ==
    \A n \in 1..enqueued :
        \/ n \in Numbers(queue)
        \/ \E f \in Flushing(flush) : n \in Numbers(flush[f].docsToProcess)
        \/ \E d \in written : d.n = n

\* a bulkWrite failed and its records are back in the queue, in front of
\* a record pushed while it was outstanding
C3_RequeuedAfterFailure ==
    /\ \E f \in DOMAIN flush : flush[f].pc = "ended"
    /\ written = {}
    /\ Len(queue) >= 2
    /\ queue[1].n = 1
    /\ enqueued = Len(queue)

\* C4: when a processQueue call ends, by success or by failure, every
\* record pushed while its bulkWrite was outstanding is outside its
\* snapshot and in the queue.
C4_PushedDuringFlushStays ==
    [][\A f \in DOMAIN flush :
          (flush[f].pc = "write" /\ flush'[f].pc = "ended")
              => /\ flush[f].during \cap Numbers(flush[f].docsToProcess) = {}
                 /\ flush[f].during \subseteq Numbers(queue')]_vars

\* C5: at most one bulkWrite of the writer is outstanding.
C5_OneFlushAtATime == Cardinality(Flushing(flush)) <= 1

\* C6: when everything pushed has been written (the queue is empty and no
\* bulkWrite is outstanding), failed_domains holds, for each lower-cased
\* domain that was pushed, exactly one document, and it is the record of
\* that domain pushed last.
C6_LatestRecordStored ==
    (Len(queue) = 0 /\ Flushing(flush) = {}) =>
        \A d \in written :
            LET key    == toLowerCase(d.domain)
                stored == {i \in 1..Len(failed_domains) :
                              failed_domains[i].domain = key}
            IN  /\ Cardinality(stored) = 1
                /\ \A i \in stored : failed_domains[i].n >= d.n

\* C18: the queue is in enqueue order: of two records in it, the one
\* pushed first comes first (after a failed bulkWrite too, whose snapshot
\* the catch puts in front of the queue).
C18_BufferInEnqueueOrder ==
    \A i, j \in 1..Len(queue) : i < j => queue[i].n < queue[j].n

\* new is old followed by the k records pushed after the first `from`
Appended(old, new, k, from) ==
    /\ Len(new) = Len(old) + k
    /\ SubSeq(new, 1, Len(old)) = old
    /\ \A i \in 1..k : new[Len(old) + i].n = from + i

C20_EveryRecordWritten ==
    \A n \in 1..MaxBad :
        (timer /\ n <= enqueued) ~> (\E d \in written : d.n = n)

(***************************************************************************)
(* Properties of the poller that need its awaits to settle.                *)
(***************************************************************************)
\* C11: isProcessing is set exactly while a run of the poller is in
\* flight, and every run in flight eventually ends, however it ends, with
\* the flag cleared, so that the next trigger is not skipped.
C11_FlagEventuallyReset ==
    /\ [](isProcessing <=> \E r \in PollRuns : InFlight(r))
    /\ isProcessing ~> (~isProcessing /\ ~Skips(isProcessing))

\* the first run stored a good record and ended without deleting document
\* 1 (recordListNumberStats or deleteMany threw); the second trigger was
\* not skipped and its run has read the document again
C11_NextRunReadsAfterFailure ==
    /\ run[1].pc = "done"
    /\ run[2].pc = "tasks"
    /\ 1 \in Ids(run[2].docs)
    /\ valid_domains # <<>>
    /\ reads = 2

(***************************************************************************)
(* The prober specification: one call of checkWebsite in a worker and the  *)
(* classification of its answer by the poller or by processCSV.  A field   *)
(* of the task is a JavaScript value: its type and its text.               *)
(***************************************************************************)
Str(text) == [type |-> "string", text |-> text]

Num(text) == [type |-> "number", text |-> text]

Undefined == [type |-> "undefined", text |-> <<>>]

\* what JavaScript takes for true in !domainData.domain
Truthy(v) ==
    \/ v.type = "string" /\ v.text # <<>>
    \/ v.type = "number" /\ v.text # <<"0">>

\* tasks whose fields are non-empty strings, one with spaces to trim
StringTasks ==
    { [domain |-> Str(<<"A",".","c","o","m">>), list_number |-> Str(<<"1">>)],
      [domain |-> Str(<<" ","b",".","c","o","m"," ">>), list_number |-> Str(<<" ","2">>)] }

\* tasks with a field that is missing, empty or a number (to_be_scanned
\* documents are written by other programs)
OtherTasks ==
    { [domain |-> Undefined, list_number |-> Str(<<"1">>)],
      [domain |-> Str(<<"A",".","c","o","m">>), list_number |-> Str(<<>>)],
      [domain |-> Str(<<"A",".","c","o","m">>), list_number |-> Num(<<"0">>)],
      [domain |-> Str(<<"A",".","c","o","m">>), list_number |-> Num(<<"7">>)],
      [domain |-> Num(<<"5">>), list_number |-> Str(<<"1">>)] }

WwUrl == <<"h","t","t","p",":","/","/","w","w","1","2",".","a","c","m","e",".","c","o","m","/">>

ParkedBody == [bytes |-> 50000, text |-> <<"B","u","y"," ","t","h","i","s"," "," ","D","o","m","a","i","n">>]

TinyBody == [bytes |-> 100, text |-> <<"h","i">>]

\* the responses of a server that answers
ProberResponses ==
    [dns : {TRUE}, fetchThrows : {FALSE}, textThrows : BOOLEAN,
     message : {"terminated"},
     status : {200, 301, 404},
     url : {CleanUrl, SedoUrl, WwUrl},
     contentLanguage : {<<>>, <<"e","n","-","U","S">>, <<"f","r">>},
     contentLength : {<<>>, <<"1","4","9","9">>, <<"1","5","0","0">>,
                      <<"5","2","4","2","8","8","0">>,
                      <<"5","2","4","2","8","8","1">>, <<"a","b","c">>},
     body : {CleanBody, ParkedBody, TinyBody}]

\* a response every test of which fails
NetParked ==
    [dns |-> TRUE, fetchThrows |-> FALSE, textThrows |-> TRUE,
     message |-> "terminated", status |-> 404, url |-> SedoUrl,
     contentLanguage |-> <<"f","r">>, contentLength |-> <<"1","4","9","9">>,
     body |-> ParkedBody]

\* what the network may answer to the prober
ProberNets ==
    ProberResponses
        \cup { [n EXCEPT !.dns = FALSE] : n \in {NetGood, NetParked} }
        \cup { [n EXCEPT !.fetchThrows = TRUE, !.message = "fetch failed"] :
                   n \in {NetGood, NetParked} }

Rejected(message) == [status |-> "rejected", message |-> message]

\* the fields of a task as the text they hold, a false field as no text
TaskText(task) ==
    [domain |-> IF Truthy(task.domain) THEN task.domain.text ELSE <<>>,
     list_number |-> IF Truthy(task.list_number) THEN task.list_number.text
                     ELSE <<>>]

\* domainData.domain.trim() and domainData.list_number.trim(), outside the
\* try of checkWebsite, throw a TypeError on a true value without a trim
TrimThrows(task) ==
    /\ Truthy(task.domain) /\ Truthy(task.list_number)
    /\ task.domain.type # "string" \/ task.list_number.type # "string"

TrimMessage(task) ==
    IF task.domain.type # "string"
    THEN "domainData.domain.trim is not a function"
    ELSE "domainData.list_number.trim is not a function"

\* the promise of pool.exec("checkWebsite", [domainData]) without the
\* timeout: the value checkWebsite returns or the error it throws
PoolExec(task, net) ==
    IF TrimThrows(task)
    THEN Rejected(TrimMessage(task))
    ELSE Fulfilled(checkWebsite(TaskText(task), net))

\* how many times checkWebsite calls fetch
Fetches(task, net) ==
    IF InvalidInput(TaskText(task)) \/ TrimThrows(task)
    THEN 0
    ELSE IF ~checkDNS(net) THEN 0 ELSE 1

\* the steps checkWebsite takes for the task pool.exec hands it
Gates(task, net) ==
    IF TrimThrows(task) THEN <<>> ELSE GatesEvaluated(TaskText(task), net)

\* records the classifier can be given that the prober does not produce
ClassifierInputs ==
    { [domain |-> <<"a",".","c","o","m">>, list_number |-> <<"1">>,
       status |-> s, pageSize |-> n, final_url |-> toLowerCase(CleanUrl),
       language |-> l] :
          s \in {<<"2","0","0">>, ERROR}, n \in {0, 50000},
          l \in {NA, <<"n","/","a">>, <<"E","N">>, <<"e","n","-","G","B">>,
                 <<"f","r">>} }

\* a call that has not been made, and an answer handed to the classifier
ProbeStarts ==
    { [pc |-> "task", via |-> "prober", task |-> t[1], net |-> t[2],
       answer |-> Pending, fetches |-> 0, gates |-> <<>>, kind |-> "none",
       good |-> <<>>, bad |-> <<>>] :
          t \in (StringTasks \X ProberNets)
                    \cup (OtherTasks \X {NetGood, [NetGood EXCEPT !.dns = FALSE]}) }
        \cup
    { [pc |-> "answered", via |-> "direct",
       task |-> [domain |-> Str(data.domain), list_number |-> Str(data.list_number)],
       net |-> NetGood, answer |-> Fulfilled(data), fetches |-> 0,
       gates |-> <<>>, kind |-> "none", good |-> <<>>, bad |-> <<>>] :
          data \in ClassifierInputs }

\* the worker runs checkWebsite(domainData)
ExecCheckWebsite ==
    /\ server = "prober"
    /\ probe.pc = "task"
    /\ probe' = [probe EXCEPT !.pc = "answered",
                              !.answer = PoolExec(probe.task, probe.net),
                              !.fetches = Fetches(probe.task, probe.net),
                              !.gates = Gates(probe.task, probe.net)]
    /\ UNCHANGED <<server, pollerVars, storeVars, countVars, writerVars, batch>>

\* the promise of pool.exec(...).timeout(10000) rejects before the worker
\* has answered: the ten seconds have passed or the worker has died
PoolRejects(message) ==
    /\ server = "prober"
    /\ probe.pc = "task"
    /\ probe' = [probe EXCEPT !.pc = "answered", !.via = "pool",
                              !.answer = Rejected(message)]
    /\ UNCHANGED <<server, pollerVars, storeVars, countVars, writerVars, batch>>

\* what Promise.allSettled reports for the task: the answer, or the record
\* of the catch handler of the dispatcher when the promise rejected
AnswerSettled(kind, task, answer) ==
    IF answer.status = "fulfilled" THEN answer
    ELSE IF kind = "poll"
    THEN Fulfilled(PollCatch(TaskText(task), answer.message))
    ELSE Fulfilled(CsvCatch(TaskText(task), answer.message))

\* the forEach callback of processBatch ("poll") or of processCSV ("csv"),
\* whose tasks are the rows with a domain and a list_number, both strings
ClassifyAnswer(kind) ==
    /\ server = "prober"
    /\ probe.pc = "answered"
    /\ kind = "csv" => /\ probe.task.domain.type = "string"
                       /\ probe.task.list_number.type = "string"
                       /\ Truthy(probe.task.domain)
                       /\ Truthy(probe.task.list_number)
    /\ LET lists == ClassifyResult([good |-> <<>>, bad |-> <<>>],
                                   AnswerSettled(kind, probe.task, probe.answer),
                                   AllowedFor(kind))
       IN  probe' = [probe EXCEPT !.pc = "classified", !.kind = kind,
                                  !.good = lists.good, !.bad = lists.bad]
    /\ UNCHANGED <<server, pollerVars, storeVars, countVars, writerVars, batch>>

InitProbe ==
    /\ server = "prober"
    /\ PollerIdle /\ StoreEmpty /\ WriterIdle
    /\ probe \in ProbeStarts
    /\ batch = NoBatch

NextProbe ==
    \/ ExecCheckWebsite
    \/ \E message \in {TimeoutMessage} \cup CrashMessages : PoolRejects(message)
    \/ \E kind \in {"poll", "csv"} : ClassifyAnswer(kind)

SpecProbe == InitProbe /\ [][NextProbe]_vars

(***************************************************************************)
(* Properties of the prober and of the classifier.                         *)
(***************************************************************************)
\* the call of checkWebsite of the prober has returned or thrown
Answered == probe.via = "prober" /\ probe.pc \in {"answered", "classified"}

\* the term is part of the URL
Blocked(url) == {k \in 1..Len(FILTERED_TERMS) : includes(url, FILTERED_TERMS[k])}

\* the page size checkWebsite measures for the response
MeasuredSize(net) ==
    IF net.contentLength = <<>> THEN net.body.bytes
    ELSE IF parseInt(net.contentLength).nan THEN 0
    ELSE parseInt(net.contentLength).val

\* the test of the classifier, written from the claim
MarkedGood(data) ==
    /\ data.status # ERROR
    /\ data.pageSize > 0
    /\ \/ toLowerCase(data.language) = <<"n","/","a">>
       \/ toLowerCase(data.language) \in ALLOWED_LANGUAGES

\* C12: the promise checkWebsite returns is fulfilled for every task, and
\* its value either has status "error" and an error_reason or neither.
C12_AlwaysResolves ==
    Answered =>
        /\ probe.answer.status = "fulfilled"
        /\ (probe.answer.value.status = ERROR)
               <=> ("error_reason" \in DOMAIN probe.answer.value)

\* C13: a record of the prober that the classifier put in the good list
\* has no error_reason, a pageSize from MIN_PAGE_SIZE to MAX_PAGE_SIZE, a
\* language that is "N/A" or allowed, and as final_url the lower-cased URL
\* of the response, with no blocked term and no wwNN. in it.
C13_GoodRecordIsClean ==
    (probe.via = "prober" /\ probe.pc = "classified") =>
        \A i \in 1..Len(probe.good) :
            LET data == probe.good[i]
            IN  /\ "error_reason" \notin DOMAIN data
                /\ data.pageSize >= MIN_PAGE_SIZE
                /\ data.pageSize <= MAX_PAGE_SIZE
                /\ data.language = NA \/ data.language \in ALLOWED_LANGUAGES
                /\ data.final_url = toLowerCase(probe.net.url)
                /\ Blocked(data.final_url) = {}
                /\ ~WW_SUBDOMAIN_REGEX(data.final_url)

\* a good record whose page is exactly MIN_PAGE_SIZE bytes long and whose
\* language header is allowed
C13_GoodAtMinimumSize ==
    /\ probe.via = "prober" /\ probe.pc = "classified"
    /\ Len(probe.good) = 1
    /\ probe.good[1].pageSize = MIN_PAGE_SIZE
    /\ probe.good[1].language = <<"e","n","-","u","s">>

\* C14: the classifier, of the poller and of processCSV alike, puts the
\* one record it is given in the good list when its status is not "error",
\* its pageSize is above 0 and its lower-cased language is "n/a" or
\* allowed, and in the bad list otherwise; a record of the prober has
\* status "error" exactly when it has an error_reason.
C14_GoodExactlyWhen ==
    probe.pc = "classified" =>
        /\ Len(probe.good) + Len(probe.bad) = 1
        /\ \A i \in 1..Len(probe.good) : MarkedGood(probe.good[i])
        /\ \A i \in 1..Len(probe.bad) : ~MarkedGood(probe.bad[i])
        /\ probe.answer.status = "fulfilled" =>
               probe.answer.value \in Range(probe.good) \cup Range(probe.bad)
        /\ (probe.via = "prober" /\ probe.answer.status = "fulfilled") =>
               ((probe.answer.value.status = ERROR)
                    <=> ("error_reason" \in DOMAIN probe.answer.value))

\* processCSV was given a record with status 200, a positive size and
\* language "en-GB" and put it in the bad list
C14_UploadRejectsBritish ==
    /\ probe.pc = "classified" /\ probe.kind = "csv"
    /\ probe.good = <<>>
    /\ Len(probe.bad) = 1
    /\ probe.bad[1].language = <<"e","n","-","G","B">>
    /\ probe.bad[1].status = <<"2","0","0">>
    /\ probe.bad[1].pageSize > 0

\* C15: when the lower-cased final URL of the response has a blocked term
\* in it, whatever its status code and size, the record has status "error"
\* and its error_reason is about the URL: it cites a blocked term that is
\* in the URL or, read loosely, is the message of the URL filter.
C15_ReasonCitesBlockedTerm ==
    (/\ Answered
     /\ probe.task \in StringTasks
     /\ probe.net.dns /\ ~probe.net.fetchThrows
     /\ Blocked(toLowerCase(probe.net.url)) # {}) =>
        /\ probe.answer.status = "fulfilled"
        /\ probe.answer.value.status = ERROR
        /\ \/ \E k \in Blocked(toLowerCase(probe.net.url)) :
                  includes(probe.answer.value.error_reason.arg, FILTERED_TERMS[k])
           \/ probe.answer.value.error_reason.msg =
                  "Filtered (Final URL contains a blocked term or ww## subdomain)"

\* C16: for a task whose domain does not resolve, checkWebsite returns the
\* record with status "error" and reason "DNS resolution failed" without
\* calling fetch, and the classifier puts that record in the bad list.
C16_UnresolvedIsBad ==
    (Answered /\ probe.task \in StringTasks /\ ~probe.net.dns) =>
        /\ probe.answer.status = "fulfilled"
        /\ probe.answer.value.status = ERROR
        /\ probe.answer.value.error_reason = Reason("DNS resolution failed", <<>>)
        /\ probe.fetches = 0
        /\ probe.pc = "classified" =>
               probe.good = <<>> /\ probe.bad = <<probe.answer.value>>

\* the poller classified the record of a domain that did not resolve
C16_UnresolvedClassified ==
    /\ probe.via = "prober" /\ probe.pc = "classified" /\ probe.kind = "poll"
    /\ probe.task \in StringTasks
    /\ ~probe.net.dns
    /\ Len(probe.bad) = 1

\* C17: when the domain resolves, the response has an accepted status, a
\* final URL without blocked term or wwNN., no language header or an
\* allowed one, a body that can be read and has no parking phrase, and a
\* size strictly between MIN_PAGE_SIZE and MAX_PAGE_SIZE, the record is
\* put in the good list.
C17_InsideBoundsIsGood ==
    (/\ probe.via = "prober" /\ probe.pc = "classified"
     /\ probe.task \in StringTasks
     /\ probe.net.dns /\ ~probe.net.fetchThrows /\ ~probe.net.textThrows
     /\ probe.net.status \in ACCEPTED_STATUS_CODES
     /\ Blocked(toLowerCase(probe.net.url)) = {}
     /\ ~WW_SUBDOMAIN_REGEX(toLowerCase(probe.net.url))
     /\ \/ probe.net.contentLanguage = <<>>
        \/ toLowerCase(probe.net.contentLanguage) \in ALLOWED_LANGUAGES
     /\ DetectedTerm(probe.net.body.text) = <<>>
     /\ MeasuredSize(probe.net) > MIN_PAGE_SIZE
     /\ MeasuredSize(probe.net) < MAX_PAGE_SIZE) =>
        /\ probe.good = <<probe.answer.value>>
        /\ probe.bad = <<>>
        /\ probe.answer.value.pageSize = MeasuredSize(probe.net)

\* a redirected page of 50000 bytes without language header, measured by
\* its body, is in the good list of processCSV
C17_PlainPageIsGood ==
    /\ probe.via = "prober" /\ probe.pc = "classified" /\ probe.kind = "csv"
    /\ probe.net.status = 301
    /\ probe.net.contentLanguage = <<>>
    /\ probe.net.contentLength = <<>>
    /\ Len(probe.good) = 1
    /\ probe.good[1].pageSize = 50000
    /\ probe.good[1].language = NA

(***************************************************************************)
(* Properties of a batch's persistence.                                    *)
(***************************************************************************)
\* C21: the step that ends a run's handling of its bad records leaves
\* failed_domains as it was and has pushed the records on the queue of the
\* deferred writer.
C21_BadRecordsDeferred ==
    [][\A r \in RunIds :
          (run[r].pc = "badWrite" /\ run'[r].pc # "badWrite") =>
              /\ failed_domains' = failed_domains
              /\ enqueued' = enqueued + Len(run[r].badResults)]_vars


\* C22: a run that is about to issue deleteMany has all its tasks settled
\* and has issued the good upsert (if it has good records), the write of
\* its bad records (if it has any) and the stats insert.
C22_DeleteAfterEveryWrite ==
    \A r \in PollRuns : run[r].pc = "delete" =>
        /\ \A i \in 1..Len(run[r].tasks) : run[r].settled[i] # Pending
        /\ run[r].goodResults # <<>> => "good" \in run[r].attempted
        /\ run[r].badResults # <<>> => "bad" \in run[r].attempted
        /\ "stats" \in run[r].attempted


(***************************************************************************)
(* uploadToMongoDB of server.js called with one pair of classified lists,  *)
(* once and again: what a batch persists when it is processed twice with   *)
(* the same probe outcomes.  The store accepts every write.                *)
(***************************************************************************)
MaxList == 2

MaxUploads == 2

\* a record the classifier put in the good list
GoodRecord(domain, listNumber) ==
    [domain |-> domain, list_number |-> listNumber, status |-> <<"2","0","0">>,
     pageSize |-> 50000, final_url |-> toLowerCase(CleanUrl),
     language |-> <<"e","n">>]

\* a record the catch handler of a task produced
BadRecord(domain, listNumber) ==
    PollCatch([domain |-> domain, list_number |-> listNumber], TimeoutMessage)

\* the domains and list numbers of the lists: one domain in two
\* capitalisations, list numbers that are array indices ("10" created
\* before "2" is listed after it) and one that names a property of
\* Object.prototype
BatchTasks ==
    { [domain |-> <<"A",".","c","o","m">>, list_number |-> <<"2">>],
      [domain |-> <<"a",".","c","o","m">>, list_number |-> <<"1","0">>],
      [domain |-> <<"b",".","c","o","m">>, list_number |-> <<"2">>],
      [domain |-> <<"b",".","c","o","m">>,
       list_number |-> <<"c","o","n","s","t","r","u","c","t","o","r">>] }

GoodLists ==
    UNION {[1..n -> {GoodRecord(t.domain, t.list_number) : t \in BatchTasks}] :
              n \in 0..MaxList}

BadLists ==
    UNION {[1..n -> {BadRecord(t.domain, t.list_number) : t \in BatchTasks}] :
              n \in 0..MaxList}

\* uploadToMongoDB(goodResults, badResults) with every write accepted
UploadToMongoDB ==
    /\ server = "batch"
    /\ batch.uploads < MaxUploads
    /\ valid_domains' = BulkWrite(valid_domains, batch.goodResults,
                                  Len(batch.goodResults))
    /\ failed_domains' = BulkWrite(failed_domains, batch.badResults,
                                   Len(batch.badResults))
    /\ domain_scan_events' =
           recordListNumberStats(domain_scan_events,
               StatsDocs(batch.goodResults, batch.badResults))
    /\ batch' = [batch EXCEPT
           !.uploads = @ + 1,
           !.aggregatedCounts =
               aggregateCountsByListNumber(batch.goodResults, batch.badResults)]
    /\ UNCHANGED <<server, pollerVars, countVars, writerVars, probe>>

InitBatch ==
    /\ server = "batch"
    /\ PollerIdle /\ StoreEmpty /\ WriterIdle
    /\ probe = NoProbe
    /\ batch \in [uploads : {0}, goodResults : GoodLists, badResults : BadLists,
                  aggregatedCounts : {<<>>}]

NextBatch == UploadToMongoDB

SpecBatch == InitBatch /\ [][NextBatch]_vars

\* the list numbers of the records of the two lists
ListNumbersOf(goodResults, badResults) ==
    {d.list_number : d \in Range(goodResults) \cup Range(badResults)}

\* C23: after uploadToMongoDB has run once on empty collections, the map
\* of aggregateCountsByListNumber has exactly the list numbers of the two
\* lists as keys, each with the number of good and of bad records that
\* carry it, and domain_scan_events holds exactly one document per list
\* number with these counts (none when both lists are empty).
C23_OneStatsDocPerListNumber ==
    batch.uploads = 1 =>
        LET present == ListNumbersOf(batch.goodResults, batch.badResults)
            counts  == batch.aggregatedCounts
            docs    == domain_scan_events.latest
        IN  /\ DOMAIN counts = present
            /\ \A ln \in present :
                   /\ counts[ln].good = CountOf(batch.goodResults, ln)
                   /\ counts[ln].bad = CountOf(batch.badResults, ln)
                   /\ Cardinality({k \in 1..Len(docs) : docs[k].list_number = ln}) = 1
            /\ \A k \in 1..Len(docs) :
                   /\ docs[k].list_number \in present
                   /\ docs[k].good_count = CountOf(batch.goodResults, docs[k].list_number)
                   /\ docs[k].bad_count = CountOf(batch.badResults, docs[k].list_number)
            /\ domain_scan_events.count = Cardinality(present)

\* C24: a call of uploadToMongoDB with lists that have been uploaded
\* before leaves valid_domains, failed_domains and domain_scan_events as
\* they were.
C24_SecondUploadChangesNothing ==
    [][batch.uploads >= 1 =>
          /\ valid_domains' = valid_domains
          /\ failed_domains' = failed_domains
          /\ domain_scan_events' = domain_scan_events]_vars


(***************************************************************************)
(* Properties of the order of the prober's tests.                          *)
(***************************************************************************)
\* C25: for a task whose domain or list_number is missing, empty or
\* otherwise false, checkWebsite resolves to the error verdict "Invalid
\* domain data" and has made no DNS lookup, no HTTP request and no other
\* test.
C25_InvalidTaskShortCircuits ==
    (Answered /\ (~Truthy(probe.task.domain) \/ ~Truthy(probe.task.list_number))) =>
        /\ probe.answer.status = "fulfilled"
        /\ probe.answer.value.status = ERROR
        /\ HasReason(probe.answer.value, {"Invalid domain data"})
        /\ probe.answer.value.domain = UNKNOWN
        /\ probe.gates = <<>>
        /\ probe.fetches = 0

\* a task with a domain that resolves and an empty list_number was answered
\* "Invalid domain data"
C25_EmptyListNumberRejected ==
    /\ Answered
    /\ probe.task.domain = Str(<<"A",".","c","o","m">>)
    /\ probe.task.list_number = Str(<<>>)
    /\ probe.net = NetGood
    /\ HasReason(probe.answer.value, {"Invalid domain data"})

\* the gates of the prober in the order of the specification, with the
\* reading of the body, which the code does between language and size
GateOrder ==
    <<"dns", "fetch", "status", "url", "language", "body", "size", "content">>

\* whether the answer of the network fails a gate, each looked at alone
GateFails(gate, net) ==
    CASE gate = "dns"      -> ~net.dns
      [] gate = "fetch"    -> net.fetchThrows
      [] gate = "status"   -> net.status \notin {200, 301}
      [] gate = "url"      -> \/ Blocked(toLowerCase(net.url)) # {}
                              \/ WW_SUBDOMAIN_REGEX(toLowerCase(net.url))
      [] gate = "language" -> /\ net.contentLanguage # <<>>
                              /\ toLowerCase(net.contentLanguage) \notin ALLOWED_LANGUAGES
      [] gate = "body"     -> net.textThrows
      [] gate = "size"     -> \/ MeasuredSize(net) < MIN_PAGE_SIZE
                              \/ MeasuredSize(net) > MAX_PAGE_SIZE
      [] gate = "content"  -> DetectedTerm(net.body.text) # <<>>

\* the reasons a gate gives when it fails
GateReasons(gate, net) ==
    CASE gate = "dns"      -> {"DNS resolution failed"}
      [] gate = "fetch"    -> {net.message}
      [] gate = "status"   -> {"Unaccepted status code (%s)"}
      [] gate = "url"      -> {"Filtered (Final URL contains a blocked term or ww## subdomain)"}
      [] gate = "language" -> {"Bad language header (%s)"}
      [] gate = "body"     -> {net.message}
      [] gate = "size"     -> {"Page size too small (< %s bytes)",
                               "Page size too large (> %s bytes)"}
      [] gate = "content"  -> {"Parking page detected: \"%s\""}

\* C26: for a task with a domain and a list_number, the prober has
\* evaluated the gates in the fixed order up to and including the first
\* one the answer of the network fails and no gate after it, and the
\* reason of its verdict is that gate's; when no gate fails it has
\* evaluated them all and the verdict has no reason.
C26_EarliestFailingGate ==
    (Answered /\ probe.task \in StringTasks) =>
        LET net     == probe.net
            verdict == probe.answer.value
            failing == {k \in 1..Len(GateOrder) : GateFails(GateOrder[k], net)}
        IN  IF failing = {}
            THEN /\ probe.gates = GateOrder
                 /\ "error_reason" \notin DOMAIN verdict
            ELSE LET first == CHOOSE k \in failing : \A j \in failing : k <= j
                 IN  /\ probe.gates = SubSeq(GateOrder, 1, first)
                     /\ HasReason(verdict, GateReasons(GateOrder[first], net))

\* a response with status 200 and a sedoparking final URL, a page of 1499
\* bytes and a body with a parking phrase was answered with the reason of
\* the URL gate, and the body was neither read nor searched
C26_BlockedUrlSkipsBody ==
    /\ Answered /\ probe.task \in StringTasks
    /\ probe.net.status = 200 /\ probe.net.url = SedoUrl
    /\ probe.net.contentLength = <<"1","4","9","9">>
    /\ probe.net.body = ParkedBody
    /\ HasReason(probe.answer.value,
                 {"Filtered (Final URL contains a blocked term or ww## subdomain)"})
    /\ probe.gates = <<"dns", "fetch", "status", "url">>


\* C27: every record the classifier of the poller or of processCSV has put
\* in the bad list carries an error_reason that is not empty: the record is
\* the prober's verdict with its reason when the prober answered, and the
\* record of the catch handler, with the error's message or "Timeout
\* exceeded", when the task timed out or its worker failed.
C27_BadRecordHasReason ==
    (probe.pc = "classified" /\ probe.via \in {"prober", "pool"}) =>
        \A i \in 1..Len(probe.bad) :
            LET rec == probe.bad[i]
            IN  /\ "error_reason" \in DOMAIN rec
                /\ rec.error_reason.msg # ""
                /\ probe.answer.status = "fulfilled" => rec = probe.answer.value
                /\ probe.answer.status = "rejected" =>
                       rec.error_reason.msg \in {probe.answer.message, "Timeout exceeded"}

\* the poller's classifier has put the record of a task that timed out in
\* the bad list
C27_TimedOutTaskClassified ==
    /\ probe.pc = "classified" /\ probe.via = "pool" /\ probe.kind = "poll"
    /\ probe.answer = Rejected(TimeoutMessage)
    /\ Len(probe.bad) = 1 /\ probe.good = <<>>
    /\ HasReason(probe.bad[1], {TimeoutMessage})


(***************************************************************************)
(* Properties of the poller's reading and deleting of to_be_scanned.       *)
(***************************************************************************)
\* C28: a poller run whose find() meets an empty to_be_scanned ends at
\* once: the step takes the run to its end with the flag cleared and no
\* task, and changes none of to_be_scanned, valid_domains, failed_domains
\* and domain_scan_events; no run is ever past its find() with no document.
C28_EmptySliceEndsRun ==
    /\ [](\A r \in PollRuns : (InFlight(r) /\ run[r].pc # "find") => run[r].docs # <<>>)
    /\ [][\A r \in PollRuns :
            (run[r].pc = "find" /\ run'[r].pc # "find" /\ to_be_scanned = <<>>) =>
                /\ run'[r] = [IdleRun EXCEPT !.pc = "done"]
                /\ ~isProcessing'
                /\ UNCHANGED <<to_be_scanned, valid_domains, failed_domains,
                               domain_scan_events, enqueued>>]_vars

\* the first run has read to_be_scanned when nothing had been inserted
\* into it and has ended; no collection holds anything
C28_RunOverEmptyQueueEnded ==
    /\ run[1].pc = "done" /\ reads = 1 /\ inserted = 0
    /\ ~isProcessing
    /\ to_be_scanned = <<>> /\ StoreEmpty

\* C29: every step that changes the entries to_be_scanned held is the
\* delete of a poller run, and after it to_be_scanned holds, unchanged and
\* in their order, exactly the entries whose _id the run did not read;
\* the entries of a run stay in to_be_scanned until its delete.
C29_DeletesWhatItRead ==
    /\ [](\A r \in PollRuns : InFlight(r) => Ids(run[r].docs) \subseteq Ids(to_be_scanned))
    /\ [][(\E d \in Range(to_be_scanned) : d \notin Range(to_be_scanned')) =>
            \E r \in PollRuns :
                /\ run[r].pc = "delete"
                /\ to_be_scanned' =
                       SelectSeq(to_be_scanned,
                                 LAMBDA d : d._id \notin Ids(run[r].docs))
                /\ Ids(to_be_scanned') = Ids(to_be_scanned) \ Ids(run[r].docs)]_vars

\* the only run has ended after writing a record for a.com, and the queue
\* holds the second entry for A.com, which the run did not read
C29_SameDomainEntryLeft ==
    /\ run[1].pc = "done" /\ started = 1 /\ reads = 1 /\ inserted = 2
    /\ Len(to_be_scanned) = 1
    /\ to_be_scanned[1]._id = 2
    /\ to_be_scanned[1].domain = <<"A",".","c","o","m">>
    /\ \E i \in 1..Len(valid_domains) : valid_domains[i].domain = <<"a",".","c","o","m">>

\* C30: a run starts only in a step that is a trigger arriving while no
\* run is in progress; a trigger that arrives while a run is in progress
\* changes nothing but the count of triggers, so nothing remembers it; the
\* runs started are never more than the triggers that found the poller
\* idle.
C30_SkippedTriggerNotQueued ==
    /\ [](started <= triggers - busyTriggers)
    /\ [][started' # started =>
            /\ ~isProcessing /\ \A r \in PollRuns : ~InFlight(r)
            /\ started' = started + 1 /\ triggers' = triggers + 1
            /\ busyTriggers' = busyTriggers]_vars
    /\ [][busyTriggers' # busyTriggers =>
            /\ isProcessing
            /\ UNCHANGED <<isProcessing, run, to_be_scanned, started, reads,
                           storeVars>>]_vars

\* a trigger was skipped while the first run was in progress; that run has
\* ended and no second run has been started
C30_SkippedTriggerStartedNothing ==
    /\ triggers = 2 /\ busyTriggers = 1 /\ started = 1
    /\ run[1].pc = "done" /\ run[2].pc = "idle"
    /\ ~isProcessing


(***************************************************************************)
(* The poller up to the read of its batch, over a queue that holds more    *)
(* entries than one batch takes.  _id grows with the time of insertion.    *)
(***************************************************************************)
MaxQueue == 3

\* the queues producers have filled: entry i was the i-th to be inserted
FilledQueues ==
    UNION { { [i \in 1..n |-> [_id |-> i, domain |-> q[i].domain,
                               list_number |-> q[i].list_number]] :
                q \in [1..n -> QueueDocs] } : n \in 0..MaxQueue }

InitQueue ==
    /\ server = "poller"
    /\ isProcessing = FALSE
    /\ run = [r \in RunIds |-> IdleRun]
    /\ to_be_scanned \in FilledQueues
    /\ inserted = Len(to_be_scanned)
    /\ triggers = 0 /\ started = 0 /\ busyTriggers = 0 /\ reads = 0
    /\ StoreEmpty /\ WriterIdle /\ ProbeIdle

NextQueue ==
    \/ PollSkip
    \/ PollStart
    \/ \E r \in PollRuns : FindFails(r) \/ FindEmpty(r) \/ FindDocs(r)

SpecQueue == InitQueue /\ [][NextQueue]_vars

\* C31: the read of a poller run returns at most BatchSize entries, and
\* every entry it returns is older than every entry of to_be_scanned it
\* does not return.
C31_ReadsOldestEntries ==
    [][\A r \in PollRuns :
          (run[r].pc = "find" /\ run'[r].pc = "tasks") =>
              /\ Len(run'[r].docs) <= BatchSize
              /\ \A d \in Range(run'[r].docs) :
                     \A e \in Range(to_be_scanned) \ Range(run'[r].docs) :
                         d._id < e._id]_vars


(***************************************************************************)
(* The HTTP requests of one call of checkWebsite, in the three workers of  *)
(* the repository: the axios and Puppeteer worker (part_000), the axios    *)
(* worker with two timeouts (part_002:291-356) and the workerpool worker   *)
(* with fetch (part_002:89-272).  The variable probe holds the call.       *)
(***************************************************************************)
startsWith(s, prefix) ==
    Len(s) >= Len(prefix) /\ SubSeq(s, 1, Len(prefix)) = prefix

Http == <<"h","t","t","p">>

HttpScheme == <<"h","t","t","p",":","/","/">>

Workers == {"axiosPuppeteer", "axiosRetry", "prescreen"}

\* the domains handed to a worker
RetrieveInputs ==
    {<<"a",".","c","o","m">>, <<"h","t","t","p",":","/","/","b",".","i","o">>,
     <<" ","c",".","d","e"," ">>}

\* how a request ends: with a 2xx response, with a response axios
\* rejects (error.response.status), or with an error code
RequestOutcomes ==
    {"200", "403", "404", "ENOTFOUND", "ECONNREFUSED", "ETIMEDOUT",
     "ECONNRESET", "EPIPE"}

Failures == RequestOutcomes \ {"200"}

\* error.message of a failed request
ErrorMessage(outcome) ==
    CASE outcome = "403" -> "Request failed with status code 403"
      [] outcome = "404" -> "Request failed with status code 404"
      [] outcome = "ENOTFOUND" -> "getaddrinfo ENOTFOUND"
      [] outcome = "ECONNREFUSED" -> "connect ECONNREFUSED"
      [] outcome = "ETIMEDOUT" -> "connect ETIMEDOUT"
      [] outcome = "ECONNRESET" -> "read ECONNRESET"
      [] OTHER -> "write EPIPE"

\* the target of the requests of a call
RequestUrl(worker, input) ==
    CASE worker = "axiosPuppeteer" ->
             IF startsWith(input, Http) THEN input ELSE HttpScheme \o input
      [] worker = "axiosRetry" ->
             IF startsWith(trim(input), Http) THEN input
             ELSE HttpScheme \o trim(input)
      [] OTHER -> HttpScheme \o trim(input)

NoVerdict == [status |-> "none", error |-> "none"]

RetrieveVerdict(status, error) == [status |-> status, error |-> error]

RetrieveStarts ==
    { [worker |-> w, pc |-> IF w = "prescreen" THEN "dns" ELSE "request",
       url |-> RequestUrl(w, input), retry |-> FALSE, requests |-> <<>>,
       pages |-> 0, verdict |-> NoVerdict] :
          w \in Workers, input \in RetrieveInputs }

Requested(timeout, outcome) ==
    Append(probe.requests,
           [url |-> probe.url, timeout |-> timeout, outcome |-> outcome])

RetrieveDone(verdict) == [probe EXCEPT !.pc = "done", !.verdict = verdict]

RetrieveUnchanged ==
    UNCHANGED <<server, pollerVars, storeVars, countVars, writerVars, batch>>

\* part_000: the catch of axios.get(url, {timeout: 10000})
AxiosPuppeteerCatch(outcome, retry) ==
    CASE outcome = "ENOTFOUND" -> RetrieveVerdict("error", "Domain not found")
      [] outcome = "ECONNREFUSED" -> RetrieveVerdict("error", "Connection refused")
      [] outcome = "ETIMEDOUT" ->
             IF ~retry THEN NoVerdict
             ELSE RetrieveVerdict("error", "Timeout exceeded")
      [] outcome = "403" -> RetrieveVerdict("403", "Blocked by website")
      [] OTHER -> RetrieveVerdict("error", ErrorMessage(outcome))

\* part_000: axios.get settles; a first ETIMEDOUT calls checkWebsite(url, true)
AxiosGet(outcome) ==
    /\ server = "retrieve"
    /\ probe.worker = "axiosPuppeteer" /\ probe.pc = "request"
    /\ LET requests == Requested(10000, outcome)
           caught   == AxiosPuppeteerCatch(outcome, probe.retry)
       IN  probe' =
             IF outcome = "200"
             THEN [probe EXCEPT !.pc = "browse", !.requests = requests]
             ELSE IF caught = NoVerdict
             THEN [probe EXCEPT !.retry = TRUE, !.requests = requests]
             ELSE [RetrieveDone(caught) EXCEPT !.requests = requests]
    /\ RetrieveUnchanged

\* part_000: the headless browser loads the page, or throws
PageGoto(ok) ==
    /\ server = "retrieve"
    /\ probe.worker = "axiosPuppeteer" /\ probe.pc = "browse"
    /\ probe' = [RetrieveDone(IF ok THEN RetrieveVerdict("200", "none")
                              ELSE RetrieveVerdict("error", "Navigation timeout"))
                   EXCEPT !.pages = probe.pages + 1]
    /\ RetrieveUnchanged

\* AxiosRetryGet repeating its request after every failure
AxiosRetryGetAlways(outcome) ==
    /\ server = "retrieve"
    /\ probe.worker = "axiosRetry" /\ probe.pc = "request"
    /\ LET requests == Requested(IF probe.retry THEN 10000 ELSE 5000, outcome)
       IN  probe' =
             IF outcome = "200"
             THEN [probe EXCEPT !.pc = "checks", !.requests = requests]
             ELSE IF outcome \in {"ETIMEDOUT", "ECONNRESET"}
             THEN [probe EXCEPT !.retry = TRUE, !.requests = requests]
             ELSE [RetrieveDone(RetrieveVerdict("error", ErrorMessage(outcome)))
                      EXCEPT !.requests = requests]
    /\ RetrieveUnchanged

\* part_002:316-338: the first attempt with 5 s, the second with 10 s
AxiosRetryGet(outcome) ==
    /\ server = "retrieve"
    /\ probe.worker = "axiosRetry" /\ probe.pc = "request"
    /\ LET requests == Requested(IF probe.retry THEN 10000 ELSE 5000, outcome)
       IN  probe' =
             IF outcome = "200"
             THEN [probe EXCEPT !.pc = "checks", !.requests = requests]
             ELSE IF ~probe.retry /\ outcome \in {"ETIMEDOUT", "ECONNRESET"}
             THEN [probe EXCEPT !.retry = TRUE, !.requests = requests]
             ELSE [RetrieveDone(RetrieveVerdict("error", ErrorMessage(outcome)))
                      EXCEPT !.requests = requests]
    /\ RetrieveUnchanged

\* part_002:112-122: checkDNS before the request
DnsLookup(resolves) ==
    /\ server = "retrieve"
    /\ probe.worker = "prescreen" /\ probe.pc = "dns"
    /\ probe' = IF resolves THEN [probe EXCEPT !.pc = "request"]
                ELSE RetrieveDone(RetrieveVerdict("error", "DNS resolution failed"))
    /\ RetrieveUnchanged

\* part_002:125-132, 261-271: one fetch, which resolves for every status
\* and rejects on a network error
Fetch(outcome) ==
    /\ server = "retrieve"
    /\ probe.worker = "prescreen" /\ probe.pc = "request"
    /\ LET requests == Requested(0, outcome)
       IN  probe' =
             IF outcome \in {"200", "403", "404"}
             THEN [probe EXCEPT !.pc = "checks", !.requests = requests]
             ELSE [RetrieveDone(RetrieveVerdict("error", ErrorMessage(outcome)))
                      EXCEPT !.requests = requests]
    /\ RetrieveUnchanged

\* the tests on the response that was received: no further request
ResponseChecks(passes) ==
    /\ server = "retrieve"
    /\ probe.pc = "checks"
    /\ probe' = RetrieveDone(IF passes THEN RetrieveVerdict("200", "none")
                             ELSE RetrieveVerdict("200", "Skipped"))
    /\ RetrieveUnchanged

InitRetrieve ==
    /\ server = "retrieve"
    /\ PollerIdle /\ StoreEmpty /\ WriterIdle
    /\ probe \in RetrieveStarts
    /\ batch = NoBatch

NextRetrieve ==
    \/ \E outcome \in RequestOutcomes : AxiosGet(outcome)
    \/ \E ok \in BOOLEAN : PageGoto(ok)
    \/ \E outcome \in RequestOutcomes : AxiosRetryGet(outcome)
    \/ \E resolves \in BOOLEAN : DnsLookup(resolves)
    \/ \E outcome \in RequestOutcomes : Fetch(outcome)
    \/ \E passes \in BOOLEAN : ResponseChecks(passes)

SpecRetrieve == InitRetrieve /\ [][NextRetrieve]_vars


\* the errors after which a worker repeats its request
TimeoutClass == {"ETIMEDOUT", "ECONNRESET"}

\* what a worker reports for its second request when that one failed
SecondFailureVerdict(worker, outcome) ==
    IF worker = "axiosPuppeteer"
    THEN CASE outcome = "ENOTFOUND" -> RetrieveVerdict("error", "Domain not found")
           [] outcome = "ECONNREFUSED" -> RetrieveVerdict("error", "Connection refused")
           [] outcome = "ETIMEDOUT" -> RetrieveVerdict("error", "Timeout exceeded")
           [] outcome = "403" -> RetrieveVerdict("403", "Blocked by website")
           [] OTHER -> RetrieveVerdict("error", ErrorMessage(outcome))
    ELSE RetrieveVerdict("error", ErrorMessage(outcome))

C33_NewestRecordWins ==
    (queue = <<>> /\ Flushing(flush) = {}) =>
        \A i \in 1..Len(failed_domains) :
            \A d \in written :
                toLowerCase(d.domain) = failed_domains[i].domain
                    => d.n <= failed_domains[i].n


\* C34 as claimed: in an initialised writer with no bulkWrite outstanding
\* the queue holds fewer than threshold records.
C34_BelowThresholdWhenIdle ==
    (mongoClient /\ Flushing(flush) = {}) => Len(queue) < threshold

\* the initialised writer has no bulkWrite outstanding and a queue at or
\* above the threshold
IdleAtThreshold(mc, fl, q, thresh) ==
    mc /\ Flushing(fl) = {} /\ Len(q) >= thresh

\* C34 as amended: a step leaves the initialised writer with no bulkWrite
\* outstanding and the queue at or above the threshold only if it is the
\* initialisation, or puts nothing into the queue, or is the catch of
\* processQueue putting its snapshot back: after a bulkWrite that
\* rejected, or at once for a snapshot with a record without a domain.
C34_AtThresholdOnlyByRebuffering ==
    [][IdleAtThreshold(mongoClient', flush', queue', threshold') =>
          \/ ~mongoClient
          \/ queue' = queue
          \/ \E f \in DOMAIN flush :
                 /\ flush[f].pc = "write" /\ flush'[f].pc = "ended"
                 /\ queue' = flush[f].docsToProcess \o queue
                 /\ written' = written
          \/ /\ calls' # calls
             /\ triggered' = "processQueue"
             /\ \E i \in 1..Len(queue') : Malformed(queue'[i])]_vars

\* a bulkWrite of two records rejected and its catch left both in the
\* queue of a writer whose threshold is two, no bulkWrite outstanding
C34_RebufferedAtThreshold ==
    /\ mongoClient /\ threshold = 2
    /\ Flushing(flush) = {}
    /\ Len(queue) = 2
    /\ \A i \in 1..Len(queue) : ~Malformed(queue[i])
    /\ \E f \in DOMAIN flush : flush[f].pc = "ended"
    /\ written = {}


(***************************************************************************)
(* Further properties of the poller and of the store.                      *)
(***************************************************************************)
\* C35: no lower-cased domain has a document in valid_domains and a
\* document in failed_domains.
C35_OneCollectionPerDomain ==
    \A i \in 1..Len(valid_domains) : \A j \in 1..Len(failed_domains) :
        valid_domains[i].domain # failed_domains[j].domain


\* C36: the step of a poller run on which the stats insert fails ends the
\* run (uploadToMongoDB rejects and the delete is not reached): it leaves
\* to_be_scanned as it is, with every entry the run read still in it,
\* inserts no stats document and clears isProcessing, so that the next
\* trigger starts a run; and a run whose read finds no more than
\* BatchSize entries reads them all, those left behind included.
C36_StatsFailureKeepsEntries ==
    [][\A r \in PollRuns :
          /\ (run[r].pc = "stats" /\ run'[r].pc \notin {"stats", "delete"}) =>
                 /\ run'[r].pc = "done"
                 /\ to_be_scanned' = to_be_scanned
                 /\ Ids(run[r].docs) \subseteq Ids(to_be_scanned')
                 /\ domain_scan_events' = domain_scan_events
                 /\ ~isProcessing' /\ ~Skips(isProcessing')
          /\ (run[r].pc = "find" /\ run'[r].pc = "tasks"
                 /\ Len(to_be_scanned) <= BatchSize) =>
                 Ids(run'[r].docs) = Ids(to_be_scanned)]_vars

\* the first run stored a good record for entry 1 and ended when its
\* stats insert failed; the second run has read entry 1 again, has
\* classified it as bad and has recorded its stats
C36_EntryProcessedAgain ==
    /\ run[1].pc = "done"
    /\ run[2].pc = "delete"
    /\ inserted = 1
    /\ Ids(run[2].docs) = {1}
    /\ Ids(to_be_scanned) = {1}
    /\ valid_domains # <<>>
    /\ run[2].goodResults = <<>>
    /\ domain_scan_events.count = 1


(***************************************************************************)
(* The prober specification followed into uploadToMongoDB: the poller      *)
(* uploads the lists of the classified task and records their stats.       *)
(***************************************************************************)
\* doc.domain.toLowerCase() throws for the record of a catch handler whose
\* task had a domain that is not a string
LowerCaseThrows ==
    probe.answer.status = "rejected" /\ probe.task.domain.type # "string"

\* uploadToMongoDB(goodResults, badResults) of the poller for the lists of
\* one task, every write accepted
UploadClassified ==
    /\ server = "prober"
    /\ probe.pc = "classified" /\ probe.kind = "poll"
    /\ LET all    == probe.good \o probe.bad
           counts == aggregateCountsByListNumber(probe.good, probe.bad)
           keys   == OwnKeysInOrder(KeysInOrder(all, Len(all)))
           docs   == [k \in 1..Len(keys) |->
                         [list_number |-> keys[k],
                          good_count  |-> counts[keys[k]].good,
                          bad_count   |-> counts[keys[k]].bad]]
       IN  /\ valid_domains' = BulkWrite(valid_domains, probe.good, Len(probe.good))
           /\ failed_domains' = IF LowerCaseThrows THEN failed_domains
                                ELSE BulkWrite(failed_domains, probe.bad,
                                               Len(probe.bad))
           /\ domain_scan_events' = recordListNumberStats(domain_scan_events, docs)
           /\ probe' = [counts |-> counts] @@ [probe EXCEPT !.pc = "recorded"]
    /\ UNCHANGED <<server, pollerVars, countVars, writerVars, batch>>

NextDispatch ==
    \/ NextProbe
    \/ UploadClassified

SpecDispatch == InitProbe /\ [][NextDispatch]_vars

\* the task has a domain and a list_number that pass the test of
\* checkWebsite
ValidTask(task) == Truthy(task.domain) /\ Truthy(task.list_number)

\* C37: the record of a task with a valid domain and list_number carries
\* the domain and the list_number of the task, whatever the outcome of the
\* task, and the stats recorded for its batch count, under the task's
\* list_number, as many records as the batch has tasks with it (one).
C37_RecordKeepsTaskIdentity ==
    (probe.pc = "recorded" /\ probe.via \in {"prober", "pool"}
        /\ ValidTask(probe.task)) =>
        LET records == probe.good \o probe.bad
            ln      == probe.task.list_number.text
        IN  /\ Len(records) = 1
            /\ records[1].domain = probe.task.domain.text
            /\ records[1].list_number = ln
            /\ ln \in DOMAIN probe.counts
            /\ probe.counts[ln].good + probe.counts[ln].bad = 1


(***************************************************************************)
(* The poller over a filled queue with no producer and a store every call  *)
(* of which succeeds.  A trigger that finds isProcessing set changes       *)
(* nothing of the poller (PollSkip) and is left out: the triggers counted  *)
(* are the ones that find the flag clear.                                  *)
(***************************************************************************)
\* what run r does next when no call of the store fails
DrainStep(r) ==
    \/ FindEmpty(r)
    \/ FindDocs(r)
    \/ \E i \in 1..Len(run[r].tasks), out \in TaskOutcomes : TaskSettles(r, i, out)
    \/ AllSettled(r)
    \/ GoodWriteOk(r)
    \/ BadWriteOk(r)
    \/ StatsOk(r)
    \/ DeleteOk(r)

NextDrain ==
    \/ PollStart
    \/ \E r \in PollRuns : DrainStep(r)

\* the cron job keeps firing, and every await of a run settles
DrainFairness ==
    /\ WF_vars(PollStart)
    /\ \A r \in PollRuns : WF_vars(DrainStep(r))

SpecDrain == InitQueue /\ [][NextDrain]_vars /\ DrainFairness

\* C38: with no producer and a working store the queue eventually is
\* empty, and a run that ends after reading entries has removed every
\* entry it read, whatever the outcomes of its tasks, so that no later
\* run finds them.
C38_QueueDrains ==
    /\ <>(to_be_scanned = <<>>)
    /\ [][\A r \in PollRuns :
             (run[r].docs # <<>> /\ run'[r].pc = "done") =>
                 /\ Ids(run[r].docs) \cap Ids(to_be_scanned') = {}
                 /\ Ids(to_be_scanned') = Ids(to_be_scanned) \ Ids(run[r].docs)]_vars

\* the queue of three entries is empty after two runs, the first of which
\* stored a record for a task that timed out
C38_DrainedByTwoRuns ==
    /\ inserted = MaxQueue
    /\ to_be_scanned = <<>>
    /\ started = 2
    /\ run[1].pc = "done" /\ run[2].pc = "done"
    /\ \E i \in 1..Len(failed_domains) :
           HasReason(failed_domains[i], {TimeoutMessage})


\* C39: a call of processQueue on an initialised writer leaves no record
\* with a domain in the queue, whatever else the queue holds: when
\* addResultsQueue has called it, every record with a domain that was in
\* the queue or was pushed by the call is in the snapshot of a bulkWrite
\* the call has issued.
C39_MalformedRecordSetAside ==
    [][(calls' # calls /\ triggered' = "processQueue" /\ mongoClient) =>
          /\ \A i \in 1..Len(queue') : Malformed(queue'[i])
          /\ \A n \in Numbers(queue) \cup (enqueued + 1)..enqueued' :
                 \/ \E i \in 1..Len(queue') : queue'[i].n = n
                 \/ \E f \in DOMAIN flush :
                        /\ flush[f].pc # "write" /\ flush'[f].pc = "write"
                        /\ n \in Numbers(flush'[f].docsToProcess)]_vars
=============================================================================
